---- MODULE Spec2Model ----
(***************************************************************************)
(* Model of the SSOC matcher (src/references/SSOC_assigner_V3.py): text    *)
(* normalisation, the catalogue and expert-map loaders, the baked-in rule  *)
(* engine and the priority cascade best_match_duties_priority.             *)
(*                                                                         *)
(* Representation.  A Python str is a TLA+ string; its characters are read *)
(* with Ch and its length with Len, so the character-level operations of   *)
(* the code (lower(), re.sub, strip, split, slicing, isdigit, regex        *)
(* search) are computed and not assumed.  Python's None, where a str is    *)
(* expected, is the value None below.  Scores and confidences are integers *)
(* in hundredths (0.66 is 66).                                             *)
(***************************************************************************)
EXTENDS Integers, Sequences, FiniteSets, TLC

(***************************************************************************)
(* Characters.                                                             *)
(***************************************************************************)
\* Python's None in a str position (no str of the model has the character <)
None == "<None>"

\* Python ints in a str position: 0, which is falsy, and 123, which is not
IntZero == "<int 0>"

IntNum == "<int 123>"

\* the values of the model that are not strs
NotStr == {None, IntZero, IntNum}

Whitespace == {" ", "\t", "\n"}

LowerLetters == {"a","b","c","d","e","f","g","h","i","j","k","l","m",
                 "n","o","p","q","r","s","t","u","v","w","x","y","z"}

UpperLetters == {"A","B","C","D","E","F","G","H","I","J","K","L","M",
                 "N","O","P","Q","R","S","T","U","V","W","X","Y","Z"}

Digits == {"0","1","2","3","4","5","6","7","8","9"}

\* \w of the re module, over the characters of the model
WordChars == LowerLetters \cup UpperLetters \cup Digits \cup {"_"}

\* the character class [_/,\-()&] of _normalize
Separators == {"_", "/", ",", "-", "(", ")", "&"}

(***************************************************************************)
(* str helpers.                                                            *)
(***************************************************************************)
\* s[i-1] of Python: the i-th character (1-based) as a one-character string
Ch(s, i) == SubSeq(s, i, i)

\* c.lower() for one character
LowerCh(c) ==
  CASE c = "A" -> "a" [] c = "B" -> "b" [] c = "C" -> "c" [] c = "D" -> "d"
    [] c = "E" -> "e" [] c = "F" -> "f" [] c = "G" -> "g" [] c = "H" -> "h"
    [] c = "I" -> "i" [] c = "J" -> "j" [] c = "K" -> "k" [] c = "L" -> "l"
    [] c = "M" -> "m" [] c = "N" -> "n" [] c = "O" -> "o" [] c = "P" -> "p"
    [] c = "Q" -> "q" [] c = "R" -> "r" [] c = "S" -> "s" [] c = "T" -> "t"
    [] c = "U" -> "u" [] c = "V" -> "v" [] c = "W" -> "w" [] c = "X" -> "x"
    [] c = "Y" -> "y" [] c = "Z" -> "z" [] OTHER -> c

\* the least and the greatest element of a non-empty set of integers
Min(I) == CHOOSE x \in I : \A y \in I : x <= y
Max(I) == CHOOSE x \in I : \A y \in I : x >= y

RECURSIVE JoinStr(_, _, _)
\* "".join(ss[lo-1:hi]), by halves
JoinStr(ss, lo, hi) ==
  IF lo > hi THEN ""
  ELSE IF lo = hi THEN ss[lo]
  ELSE LET m == (lo + hi) \div 2 IN JoinStr(ss, lo, m) \o JoinStr(ss, m + 1, hi)

\* s.lower()
Lower(s) == JoinStr([i \in 1..Len(s) |-> LowerCh(Ch(s, i))], 1, Len(s))

\* s.strip()
Strip(s) ==
  LET IsWs(i) == Ch(s, i) \in Whitespace
  IN  IF \A i \in 1..Len(s) : IsWs(i) THEN ""
      ELSE SubSeq(s, CHOOSE i \in 1..Len(s) : ~IsWs(i) /\ \A j \in 1..(i - 1) : IsWs(j),
                     CHOOSE i \in 1..Len(s) : ~IsWs(i) /\ \A j \in (i + 1)..Len(s) : IsWs(j))

\* re.sub("[C]+", repl, s): every maximal run of characters of C becomes repl
SubRuns(s, C, repl) ==
  JoinStr([i \in 1..Len(s) |->
             IF Ch(s, i) \notin C THEN Ch(s, i)
             ELSE IF i < Len(s) /\ Ch(s, i + 1) \in C THEN "" ELSE repl],
          1, Len(s))

\* re.sub("[^C]", "", s): only the characters of C stay
Keep(s, C) ==
  JoinStr([i \in 1..Len(s) |-> IF Ch(s, i) \in C THEN Ch(s, i) ELSE ""], 1, Len(s))

\* re.split("[C]", s): the pieces between the single characters of C
SplitOn(s, C) ==
  LET Cuts == {i \in 1..Len(s) : Ch(s, i) \in C} \cup {0, Len(s) + 1}
      Nth(k) == CHOOSE p \in Cuts : Cardinality({q \in Cuts : q < p}) = k - 1
  IN  [k \in 1..(Cardinality(Cuts) - 1) |-> SubSeq(s, Nth(k) + 1, Nth(k + 1) - 1)]

\* s.split(): the pieces between runs of whitespace, none of them empty
Words(s) == SelectSeq(SplitOn(s, Whitespace), LAMBDA w : w # "")

\* a + " " + b
Sp(a, b) == a \o " " \o b

\* s.isdigit()
IsDigit(s) == s # "" /\ \A i \in 1..Len(s) : Ch(s, i) \in Digits

\* s.startswith(p)
StartsWith(s, p) == Len(s) >= Len(p) /\ SubSeq(s, 1, Len(p)) = p

\* s[:n]
Prefix(s, n) == SubSeq(s, 1, IF Len(s) < n THEN Len(s) ELSE n)

Range(f) == {f[i] : i \in DOMAIN f}

(***************************************************************************)
(* Normalisation and tokenisation.                                         *)
(***************************************************************************)
_STOP == {
  "responsible", "responsibilities", "duty", "duties", "works", "work", "working",
  "perform", "performing", "including", "include", "includes", "ensure", "ensuring",
  "handle", "handling", "related", "etc", "various", "tasks", "high", "quality",
  "according", "specifications", "required", "standards", "time", "company",
  "superiors", "based", "prepare", "preparing", "progress", "senior", "junior", "lead", "sr",
  "jr"}

\* _normalize with strip() called before the substitutions and not after
\* them (C16_NormalizeIdempotent tells it from the one below)
_normalize_StripFirst(t) ==
  IF t = None THEN ""
  ELSE LET t1 == Strip(Lower(t))
           t2 == SubRuns(t1, Separators, " ")
           t3 == Keep(t2, LowerLetters \cup Whitespace)
       IN  SubRuns(t3, Whitespace, " ")

\* _normalize: lower-case, separators to spaces, drop what is neither a-z nor
\* whitespace, collapse whitespace, strip
_normalize(t) ==
  IF t = None THEN ""
  ELSE LET t1 == Lower(t)
           t2 == SubRuns(t1, Separators, " ")
           t3 == Keep(t2, LowerLetters \cup Whitespace)
       IN  Strip(SubRuns(t3, Whitespace, " "))

\* the comprehension without its stopword test (C17_NoStopNoDigits tells it
\* from the one below)
TokenFilter_NoStop(n) ==
  SelectSeq(Words(n), LAMBDA w : w # "" /\ ~IsDigit(w))

\* the comprehension of _tokens_cached over the normalised text n
TokenFilter(n) ==
  SelectSeq(Words(n), LAMBDA w : w # "" /\ w \notin _STOP /\ ~IsDigit(w))

\* _tokens_cached / _tokens: the words of the normalised text that are neither
\* stopwords nor all digits
_tokens(t) == TokenFilter(_normalize(t))

(***************************************************************************)
(* Regular expressions of the re module, as trees:                         *)
(*   <<"str", s>> (the characters of s in a row)  <<"in", C>>  <<"any">>    *)
(*   <<"seq", rs>>  <<"alt", rs>>  <<"rep", lo, hi, r>> (hi = -1: no upper  *)
(*   limit)  <<"at", "bol" | "eol" | "wb">> (^, $, \b)                      *)
(* ReMatch(r, s, P) is the set of positions (numbers of characters of s    *)
(* consumed) at which a match of r that starts at a position of P can end. *)
(***************************************************************************)
IsWordAt(s, i) == i >= 1 /\ i <= Len(s) /\ Ch(s, i) \in WordChars

\* r consumes exactly one character
IsOneChar(r) == r[1] \in {"in", "any"} \/ (r[1] = "str" /\ Len(r[2]) = 1)

\* whether the one-character pattern r accepts the j-th character of s
CharOK(r, s, j) ==
  CASE r[1] = "in"  -> Ch(s, j) \in r[2]
    [] r[1] = "any" -> Ch(s, j) # "\n"
    [] r[1] = "str" -> Ch(s, j) = r[2]

\* r{lo,hi} for a one-character pattern r: a run of lo to hi accepted characters
RepChar(r, lo, hi, s, P) ==
  {q \in 0..Len(s) : \E p \in P : /\ q - p >= lo
                                  /\ hi = -1 \/ q - p <= hi
                                  /\ \A j \in (p + 1)..q : CharOK(r, s, j)}

RECURSIVE ReMatch(_, _, _), ReSeq(_, _, _, _), ReStr(_, _, _, _), ReRep(_, _, _, _, _, _)
ReMatch(r, s, P) ==
  CASE r[1] = "str" -> ReStr(r[2], 1, s, P)
    [] r[1] = "in"  -> {p + 1 : p \in {q \in P : q < Len(s) /\ Ch(s, q + 1) \in r[2]}}
    [] r[1] = "any" -> {p + 1 : p \in {q \in P : q < Len(s) /\ Ch(s, q + 1) # "\n"}}
    [] r[1] = "seq" -> ReSeq(r[2], 1, s, P)
    [] r[1] = "alt" -> UNION {ReMatch(r[2][i], s, P) : i \in 1..Len(r[2])}
    [] r[1] = "rep" -> IF IsOneChar(r[4]) THEN RepChar(r[4], r[2], r[3], s, P)
                       ELSE ReRep(r[4], r[2], r[3], 0, s, P)
    [] r[1] = "at"  ->
         CASE r[2] = "bol" -> P \cap {0}
           [] r[2] = "eol" -> {p \in P : p = Len(s) \/ (p = Len(s) - 1 /\ Ch(s, Len(s)) = "\n")}
           [] r[2] = "wb"  -> {p \in P : IsWordAt(s, p) # IsWordAt(s, p + 1)}
ReStr(cs, i, s, P) ==
  IF i > Len(cs) \/ P = {} THEN P
  ELSE ReStr(cs, i + 1, s, {p + 1 : p \in {q \in P : q < Len(s) /\ Ch(s, q + 1) = Ch(cs, i)}})
ReSeq(rs, i, s, P) ==
  IF i > Len(rs) \/ P = {} THEN P ELSE ReSeq(rs, i + 1, s, ReMatch(rs[i], s, P))
ReRep(r, lo, hi, n, s, P) ==
  IF P = {} THEN {}
  ELSE IF n < lo THEN ReRep(r, lo, hi, n + 1, s, ReMatch(r, s, P))
  ELSE IF hi # -1 /\ n >= hi THEN P
  ELSE LET Q == ReMatch(r, s, P) \ P
       IN  IF Q = {} THEN P ELSE P \cup ReRep(r, lo, hi, n + 1, s, P \cup Q)

\* rx.search(s)
ReSearch(r, s) == ReMatch(r, s, 0..Len(s)) # {}

\* sub in s
Contains(s, sub) == ReSearch(<<"str", sub>>, s)

\* constructors of the trees, named after the regex syntax they stand for
S(s) == <<"str", s>>
In(C) == <<"in", C>>
Dot == <<"any">>
Cat(rs) == <<"seq", rs>>
Alt(rs) == <<"alt", rs>>
Rep(lo, hi, r) == <<"rep", lo, hi, r>>
Opt(r) == Rep(0, 1, r)
Star(r) == Rep(0, -1, r)
Plus(r) == Rep(1, -1, r)
BOL == <<"at", "bol">>
EOL == <<"at", "eol">>
WB == <<"at", "wb">>
WS == In(Whitespace)

(***************************************************************************)
(* Baked-in rule engine.                                                   *)
(***************************************************************************)
_VEHICLE_CUES ==
  Cat(<<WB, Alt(<<S("auto"), S("car"), S("vehicle"), S("motor"), S("automotive"), S("bodyshop"), S("panel"), S("bumper"), S("spray booth")>>), WB>>)

_CONSTRUCTION_LABOUR_CUES ==
  Cat(<<WB, Alt(<<Cat(<<S("work"), Opt(WS), S("site")>>), S("worksite"), Cat(<<S("cleaning work"), Opt(WS), S("site"), Opt(S("s"))>>), Cat(<<S("remove "), Opt(S("site ")), S("obstructions")>>), S("debris"), S("demolition"), S("trench"), S("scaffold"), S("construction"), S("site")>>), WB>>)

_DRAFTER_CUES ==
  Cat(<<WB, Alt(<<S("autocad"), S("auto-cad"), S("cad"), S("drafter"), Cat(<<S("draft"), Opt(S("s")), S("man")>>), S("draftsperson"), S("bim"), Cat(<<S("shop drawing"), Opt(S("s"))>>), Cat(<<S("technical drawing"), Opt(S("s"))>>), Cat(<<S("layout"), Opt(S("s"))>>)>>), WB>>)

\* the ordered rule list: (pattern, code, title, reason, required-context pattern
\* (<<>> for None), title-only flag)
_BAKED_RULES == <<
  \* 1
  [rx |-> Alt(<<Cat(<<BOL, Star(WS), S("cl"), Opt(In({"a","e"})), Opt(In({"a","e"})), S("n"), Opt(In({"a","e"})), S("r"), Opt(S("s")), EOL>>), Cat(<<S("o"), Plus(S("f")), S("ice"), Plus(WS), S("cl"), In({"a","e"}), In({"a","e"}), S("ner")>>)>>),
   code |-> "91131", occ_title |-> "Office/Commercial/Industrial establishment indoor cleaner",
   reason |-> "rule_cleaner_exact",
   cue |-> <<>>, title_only_check |-> TRUE],
  \* 2
  [rx |-> Cat(<<WB, S("housek"), Plus(S("e")), S("p"), Opt(In({"a","e"})), S("r"), Opt(S("s")), WB>>),
   code |-> "51501", occ_title |-> "Housekeeper (Private households, hotels and offices)",
   reason |-> "rule_housekeeper",
   cue |-> <<>>, title_only_check |-> TRUE],
  \* 3
  [rx |-> Cat(<<WB, S("janitor"), Opt(S("s")), WB>>),
   code |-> "91299", occ_title |-> "Other cleaning worker n.e.c.",
   reason |-> "rule_janitor",
   cue |-> <<>>, title_only_check |-> TRUE],
  \* 4
  [rx |-> Cat(<<WB, S("general"), Plus(WS), S("cle"), Opt(S("a")), S("n"), Opt(In({"a","e"})), S("r"), Opt(S("s")), WB>>),
   code |-> "91131", occ_title |-> "Office/Commercial/Industrial establishment indoor cleaner",
   reason |-> "rule_general_cleaner",
   cue |-> <<>>, title_only_check |-> TRUE],
  \* 5
  [rx |-> Cat(<<WB, Cat(<<S("h"), Alt(<<S("r"), Cat(<<S("uman"), Plus(WS), S("reso"), Opt(S("u")), S("rce")>>), Cat(<<S("uman"), Plus(WS), S("capital")>>)>>)>>), Plus(WS), Alt(<<Cat(<<S("director"), Opt(S("s"))>>), Cat(<<S("head"), Opt(S("s"))>>), Cat(<<S("man"), Opt(In({"a","e"})), S("ger"), Opt(S("s"))>>)>>), WB>>),
   code |-> "12121", occ_title |-> "Human resource manager",
   reason |-> "rule_hr_manager",
   cue |-> <<>>, title_only_check |-> TRUE],
  \* 6
  [rx |-> Cat(<<WB, Alt(<<Cat(<<S("recru"), In({"a","i"}), S("ter"), Opt(S("s"))>>), Cat(<<S("recru"), In({"a","i"}), S("tment")>>), Cat(<<S("talent"), Plus(WS), S("acquisition")>>)>>), WB>>),
   code |-> "24231", occ_title |-> "Recruiter/Talent acquisition specialist",
   reason |-> "rule_recruiter",
   cue |-> <<>>, title_only_check |-> TRUE],
  \* 7
  [rx |-> Cat(<<WB, S("payroll"), Plus(WS), Alt(<<Cat(<<S("specialist"), Opt(S("s"))>>), Cat(<<S("o"), Plus(S("f")), S("icer"), Opt(S("s"))>>), Cat(<<S("exec"), Opt(S("utive")), Opt(S("s"))>>)>>), WB>>),
   code |-> "41102", occ_title |-> "Payroll officer",
   reason |-> "rule_payroll_officer",
   cue |-> <<>>, title_only_check |-> TRUE],
  \* 8
  [rx |-> Cat(<<WB, S("payroll"), Plus(WS), S("cl"), In({"e","i"}), S("rk"), Opt(S("s")), WB>>),
   code |-> "41102", occ_title |-> "Payroll clerk",
   reason |-> "rule_payroll_clerk",
   cue |-> <<>>, title_only_check |-> TRUE],
  \* 9
  [rx |-> Cat(<<WB, Cat(<<S("h"), Alt(<<S("r"), Cat(<<S("uman"), Plus(WS), S("reso"), Opt(S("u")), S("rce")>>)>>)>>), Plus(WS), Alt(<<Cat(<<S("generalist"), Opt(S("s"))>>), Cat(<<S("business"), Plus(WS), S("partn"), Opt(In({"a","e"})), S("r"), Opt(S("s"))>>), S("bp")>>), WB>>),
   code |-> "41102", occ_title |-> "Human resource Clerk",
   reason |-> "rule_hr_generalist_bp",
   cue |-> <<>>, title_only_check |-> TRUE],
  \* 10
  [rx |-> Cat(<<WB, Cat(<<S("h"), Alt(<<S("r"), Cat(<<S("uman"), Plus(WS), S("reso"), Opt(S("u")), S("rce")>>), Cat(<<S("uman"), Plus(WS), S("capital")>>)>>)>>), Plus(WS), Alt(<<Cat(<<S("a"), Plus(S("s")), S("i"), Plus(S("s")), S("t"), In({"a","e"}), S("nt"), Opt(S("s"))>>), Cat(<<S("exec"), Opt(S("utive")), Opt(S("s"))>>), Cat(<<S("c"), Opt(S("o")), S("ordinator"), Opt(S("s"))>>)>>), WB>>),
   code |-> "12121", occ_title |-> "Human resource manager",
   reason |-> "rule_hr_assistant_exec",
   cue |-> <<>>, title_only_check |-> TRUE],
  \* 11
  [rx |-> Cat(<<BOL, Star(WS), Cat(<<S("h"), Alt(<<S("r"), Cat(<<S("uman"), Plus(WS), S("reso"), Opt(S("u")), S("rce")>>)>>)>>), Star(WS), EOL>>),
   code |-> "41102", occ_title |-> "Human resource Clerk",
   reason |-> "rule_hr_exact",
   cue |-> <<>>, title_only_check |-> TRUE],
  \* 12
  [rx |-> Cat(<<WB, Alt(<<S("chinese"), S("mandarin"), S("english"), S("malay"), S("tamil"), S("japanese"), S("korean"), S("french"), S("german"), S("spanish")>>), Plus(WS), Alt(<<Cat(<<S("teach"), Opt(In({"a","e"})), S("r"), Opt(S("s"))>>), Cat(<<S("tutor"), Opt(S("s"))>>), Cat(<<S("instructor"), Opt(S("s"))>>)>>), WB>>),
   code |-> "36201", occ_title |-> "Language instructor (extracurriculum)",
   reason |-> "rule_specific_language_teacher",
   cue |-> <<>>, title_only_check |-> TRUE],
  \* 13
  [rx |-> Cat(<<WB, Alt(<<Cat(<<Cat(<<S("t"), Alt(<<Cat(<<S("each"), Opt(In({"a","e"})), S("r"), Opt(S("s"))>>), Cat(<<S("utor"), Opt(S("s"))>>)>>)>>), WB, Star(Dot), WB, S("la"), Opt(S("n")), S("gu"), In({"a","e"}), S("ge"), WB>>), Cat(<<S("la"), Opt(S("n")), S("gu"), In({"a","e"}), S("ge"), WB, Star(Dot), WB, Cat(<<S("t"), Alt(<<Cat(<<S("each"), Opt(In({"a","e"})), S("r"), Opt(S("s"))>>), Cat(<<S("utor"), Opt(S("s"))>>)>>)>>), WB>>)>>)>>),
   code |-> "36201", occ_title |-> "Language instructor (extracurriculum)",
   reason |-> "rule_language_teacher",
   cue |-> <<>>, title_only_check |-> TRUE],
  \* 14
  [rx |-> Cat(<<WB, Alt(<<Cat(<<S("ret"), Opt(S("a")), S("il")>>), Cat(<<S("shop"), Opt(S("s"))>>), Cat(<<S("st"), Opt(S("o")), S("re"), Opt(S("s"))>>)>>), Plus(WS), S("man"), Opt(In({"a","e"})), S("ger"), Opt(S("s")), WB>>),
   code |-> "14201", occ_title |-> "Retail/Shop manager",
   reason |-> "rule_retail_manager",
   cue |-> <<>>, title_only_check |-> TRUE],
  \* 15
  [rx |-> Cat(<<WB, S("cashier"), Opt(S("s")), WB>>),
   code |-> "52302", occ_title |-> "Cashier (general)",
   reason |-> "rule_cashier",
   cue |-> <<>>, title_only_check |-> TRUE],
  \* 16
  [rx |-> Cat(<<WB, Alt(<<Cat(<<S("sale"), Opt(S("s")), Star(WS), Alt(<<Cat(<<S("p"), In({"a","e"}), S("rson"), Opt(S("s"))>>), Cat(<<S("cl"), In({"e","i"}), S("rk"), Opt(S("s"))>>), Cat(<<S("a"), Plus(S("s")), S("i"), Plus(S("s")), S("t"), In({"a","e"}), S("nt"), Opt(S("s"))>>), S("executive"), S("exec")>>)>>), Cat(<<S("retail"), Plus(WS), S("sale"), Opt(S("s"))>>), Cat(<<S("shop"), Opt(S("s")), Plus(WS), S("a"), Plus(S("s")), S("i"), Plus(S("s")), S("t"), In({"a","e"}), S("nt"), Opt(S("s"))>>)>>), WB>>),
   code |-> "52202", occ_title |-> "Shop sales assistant",
   reason |-> "rule_sales_person_clerk_asst",
   cue |-> <<>>, title_only_check |-> TRUE],
  \* 17
  [rx |-> Cat(<<WB, Alt(<<Cat(<<S("sale"), Opt(S("s")), Plus(WS), S("sup"), In({"a","e","i"}), S("rvisor"), Opt(S("s"))>>), Cat(<<S("fl"), Opt(S("o")), Opt(S("o")), S("r"), Plus(WS), S("man"), Opt(In({"a","e"})), S("ger"), Opt(S("s"))>>)>>), WB>>),
   code |-> "52201", occ_title |-> "Sales supervisor",
   reason |-> "rule_retail_sales_sup",
   cue |-> <<>>, title_only_check |-> TRUE],
  \* 18
  [rx |-> Cat(<<WB, Cat(<<S("c"), Alt(<<Cat(<<S("ustom"), Opt(In({"a","e"})), S("r"), Opt(S("s")), Star(WS), Cat(<<S("s"), Alt(<<Cat(<<In({"a","e","i"}), S("rvice"), Opt(S("s"))>>), Cat(<<S("u"), Plus(S("p")), Opt(S("o")), S("rt")>>)>>)>>)>>), Cat(<<S("lient"), Plus(WS), S("relations")>>)>>)>>), WB>>),
   code |-> "42245", occ_title |-> "Customer service representative",
   reason |-> "rule_customer_service_support",
   cue |-> <<>>, title_only_check |-> TRUE],
  \* 19
  [rx |-> Cat(<<WB, S("flyer"), WB>>),
   code |-> "96291", occ_title |-> "Leaflet/Newspaper distributor/deliverer",
   reason |-> "rule_flyer_distributor",
   cue |-> <<>>, title_only_check |-> TRUE],
  \* 20
  [rx |-> Cat(<<WB, S("merchand"), Opt(S("i")), In({"s","z"}), S("er"), WB>>),
   code |-> "33225", occ_title |-> "Merchandising/Category executive",
   reason |-> "rule_mercahndiser",
   cue |-> <<>>, title_only_check |-> TRUE],
  \* 21
  [rx |-> Cat(<<WB, Alt(<<Cat(<<S("tailor"), Opt(S("s"))>>), Cat(<<S("dre"), Plus(S("s")), S("mak"), Opt(In({"a","e"})), S("r"), Opt(S("s"))>>)>>), WB>>),
   code |-> "75310", occ_title |-> "Tailor/Dressmaker",
   reason |-> "rule_tailor_dressmaker",
   cue |-> <<>>, title_only_check |-> TRUE],
  \* 22
  [rx |-> Cat(<<WB, Cat(<<S("st"), Alt(<<Cat(<<S("ore"), Opt(S("s")), Star(WS), S("k"), Plus(S("e")), S("p"), Opt(In({"a","e"})), S("r")>>), Cat(<<Opt(S("o")), S("re"), Star(WS), S("man")>>), Cat(<<Opt(S("o")), S("re"), Star(WS), S("men")>>)>>)>>), WB>>),
   code |-> "43212", occ_title |-> "Storekeeper",
   reason |-> "rule_storekeeper",
   cue |-> <<>>, title_only_check |-> TRUE],
  \* 23
  [rx |-> Cat(<<WB, Cat(<<S("warehouse"), Plus(WS), Alt(<<Cat(<<S("a"), Plus(S("s")), S("i"), Plus(S("s")), S("t"), In({"a","e"}), S("nt"), Opt(S("s"))>>), Cat(<<S("op"), Opt(In({"a","e"})), S("rator"), Opt(S("s"))>>), Cat(<<S("pick"), Opt(In({"a","e"})), S("r"), Opt(S("s"))>>), Cat(<<S("pack"), Opt(In({"a","e"})), S("r"), Opt(S("s"))>>)>>)>>), WB>>),
   code |-> "93201", occ_title |-> "Hand packer",
   reason |-> "rule_warehouse_asst",
   cue |-> <<>>, title_only_check |-> TRUE],
  \* 24
  [rx |-> Cat(<<WB, S("logistic"), Opt(S("s")), Plus(WS), S("c"), Opt(S("o")), S("ordinator"), Opt(S("s")), WB>>),
   code |-> "33461", occ_title |-> "Logistics/Production planner",
   reason |-> "rule_logistics_coord",
   cue |-> <<>>, title_only_check |-> TRUE],
  \* 25
  [rx |-> Cat(<<WB, S("pack"), Opt(In({"a","e"})), S("r"), Opt(S("s")), WB>>),
   code |-> "93201", occ_title |-> "Hand packer",
   reason |-> "rule_packer",
   cue |-> <<>>, title_only_check |-> TRUE],
  \* 26
  [rx |-> Cat(<<WB, S("general"), Plus(WS), S("work"), Opt(In({"a","e"})), S("r"), Opt(S("s")), WB>>),
   code |-> "96293", occ_title |-> "Odd job person",
   reason |-> "rule_general_worker",
   cue |-> <<>>, title_only_check |-> TRUE],
  \* 27
  [rx |-> Cat(<<WB, S("fork"), Star(WS), S("lift"), Opt(S("s")), WB>>),
   code |-> "83441", occ_title |-> "Fork lift truck operator",
   reason |-> "rule_forklift",
   cue |-> <<>>, title_only_check |-> FALSE],
  \* 28
  [rx |-> Cat(<<WB, Alt(<<S("bus"), S("coach")>>), Plus(WS), S("driv"), Opt(In({"a","e"})), S("r"), Opt(S("s")), WB>>),
   code |-> "83311", occ_title |-> "Bus driver",
   reason |-> "rule_bus_driver",
   cue |-> <<>>, title_only_check |-> TRUE],
  \* 29
  [rx |-> Cat(<<WB, Alt(<<Cat(<<S("lo"), Plus(S("r")), S("y")>>), S("truck")>>), Star(WS), S("driv"), Opt(In({"a","e"})), S("r"), Opt(S("s")), WB>>),
   code |-> "83321", occ_title |-> "Lorry/Truck driver",
   reason |-> "rule_lorry_truck_driver",
   cue |-> <<>>, title_only_check |-> TRUE],
  \* 30
  [rx |-> Cat(<<WB, S("deliv"), Opt(In({"a","e"})), S("ry"), Star(WS), S("driv"), Opt(In({"a","e"})), S("r"), Opt(S("s")), WB>>),
   code |-> "83229", occ_title |-> "Car/Taxi/Van/Light goods vehicle driver n.e.c.",
   reason |-> "rule_delivery_driver",
   cue |-> <<>>, title_only_check |-> TRUE],
  \* 31
  [rx |-> Cat(<<BOL, Star(WS), S("driv"), Opt(In({"a","e"})), S("r"), Opt(S("s")), Star(WS), EOL>>),
   code |-> "8322", occ_title |-> "Car/Taxi/Van/Light goods vehicle driver",
   reason |-> "rule_driver_exact",
   cue |-> <<>>, title_only_check |-> TRUE],
  \* 32
  [rx |-> Cat(<<WB, S("con"), Opt(S("s")), S("t"), Opt(S("r")), S("uct"), Opt(S("i")), S("on"), Plus(WS), S("work"), Opt(In({"a","e"})), S("r"), Opt(S("s")), WB>>),
   code |-> "93100", occ_title |-> "Civil engineering/Building construction labourer",
   reason |-> "rule_construction_worker",
   cue |-> <<>>, title_only_check |-> TRUE],
  \* 33
  [rx |-> Cat(<<WB, S("site"), Plus(WS), S("c"), Opt(S("o")), S("ordinator"), Opt(S("s")), WB>>),
   code |-> "31124", occ_title |-> "Resident technical officer",
   reason |-> "rule_site_coord",
   cue |-> <<Cat(<<WB, Alt(<<Cat(<<S("work"), Star(WS), S("site")>>), Cat(<<S("constru"), In({"c","k"}), S("tion")>>), S("building"), S("engineering")>>), WB>>)>>, title_only_check |-> TRUE],
  \* 34
  [rx |-> Cat(<<S("site"), Plus(WS), S("sup"), In({"a","e","i"}), S("rvisor"), Opt(S("s"))>>),
   code |-> "71000", occ_title |-> "Supervisor/General foreman (building and related trades)",
   reason |-> "rule_site_supervisor",
   cue |-> <<>>, title_only_check |-> TRUE],
  \* 35
  [rx |-> Cat(<<WB, Alt(<<Cat(<<S("sup"), In({"a","e","i"}), S("rvisor"), Opt(S("s")), Star(WS), S("cum"), Star(WS), S("general"), Star(WS), S("f"), Opt(S("o")), S("rem"), In({"a","e"}), S("n")>>), Cat(<<S("f"), Opt(S("o")), S("rem"), In({"a","e"}), S("n")>>)>>), WB>>),
   code |-> "71000", occ_title |-> "Supervisor/General foreman (building and related trades)",
   reason |-> "rule_foreman",
   cue |-> <<>>, title_only_check |-> TRUE],
  \* 36
  [rx |-> Cat(<<WB, S("saf"), Opt(In({"a","e"})), S("ty"), Plus(WS), Alt(<<Cat(<<S("o"), Plus(S("f")), S("icer"), Opt(S("s"))>>), Cat(<<S("sup"), In({"a","e","i"}), S("rvisor"), Opt(S("s"))>>)>>), WB>>),
   code |-> "21493", occ_title |-> "Industrial safety engineer",
   reason |-> "rule_safety",
   cue |-> <<>>, title_only_check |-> TRUE],
  \* 37
  [rx |-> Cat(<<WB, S("qua"), Opt(S("n")), S("tity"), Star(WS), S("s"), In({"e","u"}), S("rv"), In({"a","e"}), S("yor"), Opt(S("s")), WB>>),
   code |-> "21494", occ_title |-> "Quantity surveyor",
   reason |-> "rule_qs",
   cue |-> <<>>, title_only_check |-> TRUE],
  \* 38
  [rx |-> Cat(<<WB, S("exc"), In({"a","e"}), S("v"), In({"a","e"}), S("t"), Opt(S("o")), S("r"), Opt(S("s")), Plus(WS), S("op"), Opt(In({"a","e"})), S("ra"), Opt(S("t")), S("or"), Opt(S("s")), WB>>),
   code |-> "83421", occ_title |-> "Excavating/Trench digging machine operator",
   reason |-> "rule_excavator_operator",
   cue |-> <<>>, title_only_check |-> TRUE],
  \* 39
  [rx |-> Cat(<<WB, S("pump"), Opt(S("s")), Plus(WS), S("op"), Opt(In({"a","e"})), S("ra"), Opt(S("t")), S("or"), Opt(S("s")), WB>>),
   code |-> "31153", occ_title |-> "Machining/Tooling technician",
   reason |-> "rule_pump_operator",
   cue |-> <<Cat(<<WB, Alt(<<S("plant"), S("machine"), S("industrial"), S("construction"), S("site"), S("water"), S("chemical")>>), WB>>)>>, title_only_check |-> FALSE],
  \* 40
  [rx |-> Cat(<<S("q"), Alt(<<S("uality"), S("a"), S("c")>>)>>),
   code |-> "21414", occ_title |-> "Quality control/assurance engineer",
   reason |-> "rule_QA_engineer",
   cue |-> <<>>, title_only_check |-> TRUE],
  \* 41
  [rx |-> Cat(<<WB, S("safety"), WB>>),
   code |-> "21493", occ_title |-> "Industrial safety engineer",
   reason |-> "rule_safety_engineer",
   cue |-> <<>>, title_only_check |-> TRUE],
  \* 42
  [rx |-> Cat(<<WB, S("carp"), In({"a","e"}), S("nt"), Opt(In({"a","e"})), S("r"), Opt(S("s")), WB>>),
   code |-> "71151", occ_title |-> "Carpenter",
   reason |-> "rule_carpenter",
   cue |-> <<>>, title_only_check |-> TRUE],
  \* 43
  [rx |-> Cat(<<WB, S("plumb"), Opt(In({"a","e"})), S("r"), Opt(S("s")), WB>>),
   code |-> "71261", occ_title |-> "Plumber",
   reason |-> "rule_plumber",
   cue |-> <<>>, title_only_check |-> TRUE],
  \* 44
  [rx |-> Cat(<<WB, S("plast"), Opt(In({"a","e"})), S("r"), Opt(In({"a","e"})), S("r"), Opt(S("s")), WB>>),
   code |-> "71230", occ_title |-> "Plasterer",
   reason |-> "rule_plasterer",
   cue |-> <<>>, title_only_check |-> TRUE],
  \* 45
  [rx |-> Cat(<<WB, S("til"), Opt(In({"a","e"})), S("r"), Opt(S("s")), WB>>),
   code |-> "71220", occ_title |-> "Tiler",
   reason |-> "rule_tiler",
   cue |-> <<>>, title_only_check |-> TRUE],
  \* 46
  [rx |-> Cat(<<WB, S("glaz"), In({"e","i"}), S("r"), Opt(S("s")), WB>>),
   code |-> "71250", occ_title |-> "Glazier",
   reason |-> "rule_glazier",
   cue |-> <<>>, title_only_check |-> TRUE],
  \* 47
  [rx |-> Cat(<<WB, S("weld"), Opt(In({"a","e"})), S("r"), Opt(S("s")), WB>>),
   code |-> "72120", occ_title |-> "Welder",
   reason |-> "rule_welder",
   cue |-> <<>>, title_only_check |-> TRUE],
  \* 48
  [rx |-> Cat(<<WB, Cat(<<S("sca"), Alt(<<Cat(<<Plus(S("f")), S("old"), Opt(In({"a","e"})), S("r"), Opt(S("s"))>>), Cat(<<Plus(S("f")), S("old")>>)>>)>>), WB>>),
   code |-> "71191", occ_title |-> "Scaffolder",
   reason |-> "rule_scaffolder",
   cue |-> <<>>, title_only_check |-> FALSE],
  \* 49
  [rx |-> Cat(<<WB, Cat(<<BOL, S("architect"), EOL>>), WB>>),
   code |-> "21610", occ_title |-> "Building architect",
   reason |-> "rule_architect",
   cue |-> <<>>, title_only_check |-> TRUE],
  \* 50
  [rx |-> Cat(<<WB, S("lift"), Opt(S("i")), S("ng"), WB>>),
   code |-> "83431", occ_title |-> "Crane/Hoist operator (excluding port)",
   reason |-> "rule_lifting_crane_supervisor",
   cue |-> <<>>, title_only_check |-> TRUE],
  \* 51
  [rx |-> Cat(<<WB, Alt(<<S("senior"), S("principal"), S("lead"), Cat(<<S("exec"), Opt(S("utive")), Opt(S("s"))>>)>>), Plus(WS), S("en"), Opt(S("g")), S("in"), Plus(S("e")), S("r"), Opt(S("s")), WB>>),
   code |-> "21499", occ_title |-> "Engineering professional n.e.c.",
   reason |-> "rule_senior_exec_engineer",
   cue |-> <<>>, title_only_check |-> TRUE],
  \* 52
  [rx |-> Cat(<<WB, Alt(<<Cat(<<S("sale"), Opt(S("s")), Plus(WS), S("en"), Opt(S("g")), S("in"), Plus(S("e")), S("r"), Opt(S("s"))>>), Cat(<<S("tech"), Opt(S("n")), Opt(S("i")), Opt(S("c")), S("al"), Plus(WS), S("sale"), Opt(S("s"))>>)>>), WB>>),
   code |-> "24331", occ_title |-> "Technical sales professional",
   reason |-> "rule_sales_engineer",
   cue |-> <<>>, title_only_check |-> TRUE],
  \* 53
  [rx |-> Cat(<<WB, S("mechanic"), Opt(S("s")), WB>>),
   code |-> "72310", occ_title |-> "Automotive mechanic",
   reason |-> "rule_vehicle_mechanic",
   cue |-> <<Cat(<<WB, Alt(<<S("auto"), S("car"), S("vehicle"), S("motor"), S("automotive"), S("tyre"), S("battery")>>), WB>>)>>, title_only_check |-> FALSE],
  \* 54
  [rx |-> S("cnc"),
   code |-> "31153", occ_title |-> "Machining/Tooling technician",
   reason |-> "rule_cnc",
   cue |-> <<>>, title_only_check |-> TRUE],
  \* 55
  [rx |-> Cat(<<WB, Cat(<<S("u"), In({"i","x"})>>), WB>>),
   code |-> "25124", occ_title |-> "Interaction designer",
   reason |-> "rule_UI|UX_designer",
   cue |-> <<>>, title_only_check |-> TRUE],
  \* 56
  [rx |-> Cat(<<WB, S("el"), Opt(S("e")), S("ctr"), In({"a","i"}), S("c"), Opt(S("i")), S("an"), Opt(S("s")), WB>>),
   code |-> "74110", occ_title |-> "Electrician",
   reason |-> "rule_electrician",
   cue |-> <<>>, title_only_check |-> TRUE],
  \* 57
  [rx |-> Cat(<<WB, S("m"), Opt(S("e")), S("ch"), In({"a","e"}), Opt(S("n")), S("i"), Opt(S("c")), S("al"), Plus(WS), S("tech"), Opt(S("n")), Opt(S("i")), S("c"), Opt(S("i")), S("an"), Opt(S("s")), WB>>),
   code |-> "31151", occ_title |-> "Mechanical engineering technician",
   reason |-> "rule_mech_tech",
   cue |-> <<>>, title_only_check |-> TRUE],
  \* 58
  [rx |-> Cat(<<WB, S("en"), Opt(S("g")), S("in"), Plus(S("e")), S("ring"), Plus(WS), S("tech"), Opt(S("n")), Opt(S("i")), S("c"), Opt(S("i")), S("an"), Opt(S("s")), WB>>),
   code |-> "31129", occ_title |-> "Civil engineering technician n.e.c.",
   reason |-> "rule_eng_tech",
   cue |-> <<>>, title_only_check |-> TRUE],
  \* 59
  [rx |-> Cat(<<WB, Alt(<<Cat(<<S("el"), Opt(S("e")), S("ctr"), In({"a","i"}), Opt(S("c")), S("al"), Plus(WS), S("en"), Opt(S("g")), S("in"), Plus(S("e")), S("r"), Opt(S("s"))>>), Cat(<<S("sw"), Opt(S("i")), S("tchb"), Opt(S("o")), Opt(S("a")), S("rd"), Opt(S("s"))>>), Cat(<<S("p"), Opt(S("o")), S("w"), Opt(In({"a","e"})), S("r"), Plus(WS), S("s"), In({"i","y"}), S("st"), Opt(S("e")), S("m"), Opt(S("s"))>>)>>), WB>>),
   code |-> "21511", occ_title |-> "Electrical engineer",
   reason |-> "rule_elec_engineer",
   cue |-> <<>>, title_only_check |-> TRUE],
  \* 60
  [rx |-> Cat(<<WB, Cat(<<S("air"), Alt(<<Cat(<<Opt(S("-")), S("con")>>), Cat(<<Star(WS), S("conditioning")>>)>>)>>), WB>>),
   code |-> "71271", occ_title |-> "Air-conditioning and refrigeration mechanic",
   reason |-> "rule_aircon",
   cue |-> <<>>, title_only_check |-> FALSE],
  \* 61
  [rx |-> Cat(<<WB, S("m"), Opt(S("e")), S("ch"), In({"a","e"}), Opt(S("n")), S("ic"), Opt(S("a")), Opt(S("l")), Plus(WS), S("tech"), Opt(S("n")), Opt(S("i")), S("c"), Opt(S("i")), S("an"), Opt(S("s")), WB>>),
   code |-> "31151", occ_title |-> "Mechanical engineering technician",
   reason |-> "rule_mech_tech",
   cue |-> <<>>, title_only_check |-> TRUE],
  \* 62
  [rx |-> Cat(<<BOL, S("tech"), Opt(S("n")), Opt(S("i")), S("c"), Opt(S("i")), S("an"), EOL>>),
   code |-> "31151", occ_title |-> "Mechanical engineering technician",
   reason |-> "rule_mech_tech",
   cue |-> <<>>, title_only_check |-> TRUE],
  \* 63
  [rx |-> Cat(<<WB, Alt(<<Cat(<<S("doct"), Opt(S("o")), S("r"), Opt(S("s"))>>), Cat(<<S("ph"), In({"i","y"}), S("sician"), Opt(S("s"))>>)>>), WB>>),
   code |-> "22110", occ_title |-> "General practitioner/Physician",
   reason |-> "rule_doctor_gp",
   cue |-> <<>>, title_only_check |-> TRUE],
  \* 64
  [rx |-> Cat(<<WB, Cat(<<S("general"), Plus(WS), S("practition"), Opt(In({"a","e"})), S("r"), Opt(S("s"))>>), WB>>),
   code |-> "22110", occ_title |-> "General practitioner/Physician",
   reason |-> "rule_doctor_gp",
   cue |-> <<>>, title_only_check |-> TRUE],
  \* 65
  [rx |-> Cat(<<WB, Alt(<<S("registered"), S("staff")>>), Plus(WS), S("n"), Opt(S("u")), S("rs"), Opt(S("e")), Opt(S("s")), WB>>),
   code |-> "22200", occ_title |-> "Nursing professional",
   reason |-> "rule_registered_staff_nurse",
   cue |-> <<>>, title_only_check |-> TRUE],
  \* 66
  [rx |-> Cat(<<WB, Alt(<<S("enrolled"), S("assistant")>>), Plus(WS), S("n"), Opt(S("u")), S("rs"), Opt(S("e")), Opt(S("s")), WB>>),
   code |-> "32200", occ_title |-> "Enrolled/Assistant nurse",
   reason |-> "rule_enrolled_nurse",
   cue |-> <<>>, title_only_check |-> TRUE],
  \* 67
  [rx |-> Cat(<<WB, Alt(<<Cat(<<S("nursing"), Plus(WS), S("aide"), Opt(S("s"))>>), Cat(<<S("healthcare"), Plus(WS), S("a"), Plus(S("s")), S("i"), Plus(S("s")), S("t"), In({"a","e"}), S("nt"), Opt(S("s"))>>)>>), WB>>),
   code |-> "53201", occ_title |-> "Healthcare assistant",
   reason |-> "rule_nursing_aide",
   cue |-> <<>>, title_only_check |-> TRUE],
  \* 68
  [rx |-> Alt(<<Cat(<<BOL, Star(WS), S("nurs"), Opt(S("e")), Opt(S("s")), Star(WS), EOL>>), Cat(<<S("clinic"), Plus(WS), S("nurse")>>)>>),
   code |-> "22200", occ_title |-> "Registered nurse and related nursing professional (excluding enrolled nurse)",
   reason |-> "rule_nurse_exact",
   cue |-> <<>>, title_only_check |-> TRUE],
  \* 69
  [rx |-> Cat(<<S("clinic"), Plus(WS), Cat(<<S("m"), Alt(<<S("anager"), Cat(<<Plus(S("a")), S("nger")>>), S("gr"), S("gt")>>)>>)>>),
   code |-> "13420", occ_title |-> "Health services manager",
   reason |-> "rule_clinic_manager",
   cue |-> <<>>, title_only_check |-> TRUE],
  \* 70
  [rx |-> Cat(<<S("clinic"), Plus(WS), Cat(<<S("a"), Alt(<<Cat(<<Plus(S("s")), S("i"), Plus(S("s")), S("tant")>>), Cat(<<Plus(S("s")), S("t")>>)>>)>>)>>),
   code |-> "42243", occ_title |-> "Medical/Dental receptionist",
   reason |-> "rule_clinic_assistant",
   cue |-> <<>>, title_only_check |-> TRUE],
  \* 71
  [rx |-> Cat(<<WB, S("pr"), Opt(S("o")), S("j"), Opt(S("e")), S("ct"), Plus(WS), S("o"), Plus(S("f")), S("icer"), Opt(S("s")), WB>>),
   code |-> "24213", occ_title |-> "Business/Financial project management professional",
   reason |-> "rule_project_officer",
   cue |-> <<>>, title_only_check |-> TRUE],
  \* 72
  [rx |-> Cat(<<WB, S("pr"), Opt(S("o")), S("j"), Opt(S("e")), S("ct"), Plus(WS), S("c"), Opt(S("o")), S("ordinator"), Opt(S("s")), WB>>),
   code |-> "13299", occ_title |-> "Other production/operations manager n.e.c.",
   reason |-> "rule_project_coord",
   cue |-> <<>>, title_only_check |-> TRUE],
  \* 73
  [rx |-> Cat(<<WB, S("pr"), Opt(S("o")), S("j"), Opt(S("e")), S("ct"), Plus(WS), S("man"), Opt(In({"a","e"})), S("ger"), Opt(S("s")), WB>>),
   code |-> "13299", occ_title |-> "Other production/operations manager n.e.c.",
   reason |-> "rule_project_manager",
   cue |-> <<>>, title_only_check |-> TRUE],
  \* 74
  [rx |-> Cat(<<WB, S("op"), Opt(S("e")), S("ra"), Opt(S("t")), S("ion"), Opt(S("s")), Plus(WS), S("man"), Opt(In({"a","e"})), S("ger"), Opt(S("s")), WB>>),
   code |-> "13299", occ_title |-> "Other production/operations manager n.e.c.",
   reason |-> "rule_ops_manager",
   cue |-> <<>>, title_only_check |-> TRUE],
  \* 75
  [rx |-> Cat(<<WB, BOL, Cat(<<S("m"), Alt(<<S("anager"), Cat(<<Plus(S("a")), S("nger")>>)>>)>>), EOL, WB>>),
   code |-> "12112", occ_title |-> "Administration manager",
   reason |-> "rule_ops_manager",
   cue |-> <<>>, title_only_check |-> TRUE],
  \* 76
  [rx |-> Cat(<<WB, Cat(<<S("c"), Alt(<<Cat(<<S("hi"), In({"e","i"}), S("f"), Plus(WS), S("finan"), In({"c","s"}), S("ial"), Plus(WS), S("o"), Plus(S("f")), S("icer"), Opt(S("s"))>>), S("fo")>>)>>), WB>>),
   code |-> "12111", occ_title |-> "Budgeting/Financial accounting manager",
   reason |-> "rule_cfo",
   cue |-> <<>>, title_only_check |-> TRUE],
  \* 77
  [rx |-> Cat(<<WB, Cat(<<S("c"), Alt(<<Cat(<<S("hi"), In({"e","i"}), S("f"), Plus(WS), S("tech"), Opt(S("n")), S("ology"), Plus(WS), S("o"), Plus(S("f")), S("icer"), Opt(S("s"))>>), S("to")>>)>>), WB>>),
   code |-> "13301", occ_title |-> "Chief information officer/Chief technology officer/Chief information security officer",
   reason |-> "rule_cto",
   cue |-> <<>>, title_only_check |-> TRUE],
  \* 78
  [rx |-> Cat(<<BOL, WB, S("director"), WB, EOL>>),
   code |-> "11201", occ_title |-> "Managing director/Chief executive officer",
   reason |-> "rule_ceo_md",
   cue |-> <<>>, title_only_check |-> TRUE],
  \* 79
  [rx |-> Cat(<<WB, Alt(<<Cat(<<S("man"), Opt(In({"a","e"})), S("ging"), Plus(WS), S("director"), Opt(S("s"))>>), Cat(<<S("chi"), In({"e","i"}), S("f"), Plus(WS), S("exec"), Opt(S("utive")), Opt(S("s")), Plus(WS), S("o"), Plus(S("f")), S("icer"), Opt(S("s"))>>), S("ceo")>>), WB>>),
   code |-> "11201", occ_title |-> "Managing director/Chief executive officer",
   reason |-> "rule_ceo_md",
   cue |-> <<>>, title_only_check |-> TRUE],
  \* 80
  [rx |-> Cat(<<WB, Cat(<<S("c"), Alt(<<Cat(<<S("hi"), In({"e","i"}), S("f"), Plus(WS), S("op"), Opt(S("e")), S("ra"), Opt(S("t")), S("ing"), Plus(WS), S("o"), Plus(S("f")), S("icer"), Opt(S("s"))>>), S("oo")>>)>>), WB>>),
   code |-> "11203", occ_title |-> "Chief operating officer/General manager",
   reason |-> "rule_coo_director",
   cue |-> <<>>, title_only_check |-> TRUE],
  \* 81
  [rx |-> Cat(<<WB, S("general"), Plus(WS), Cat(<<S("m"), Alt(<<Cat(<<Plus(S("a")), S("nger")>>), Cat(<<S("an"), Opt(In({"a","e"})), S("ger"), Opt(S("s"))>>)>>)>>), WB>>),
   code |-> "11203", occ_title |-> "Chief operating officer/General manager",
   reason |-> "rule_general_manager",
   cue |-> <<>>, title_only_check |-> TRUE],
  \* 82
  [rx |-> Cat(<<WB, S("pub"), Opt(S("l")), S("ic"), Plus(WS), S("re"), Opt(S("a")), Plus(S("l")), Opt(S("a")), S("t"), Opt(S("i")), S("on"), Opt(S("s")), WB>>),
   code |-> "24320", occ_title |-> "24320\tPublic relations/Corporate communications professional",
   reason |-> "rule_public_relations",
   cue |-> <<>>, title_only_check |-> TRUE],
  \* 83
  [rx |-> Cat(<<WB, Cat(<<S("web"), Alt(<<Cat(<<Star(WS), S("site"), Opt(S("s")), Star(WS), S("admi"), Opt(S("n")), S("i"), Opt(S("s")), S("tr"), In({"a","e"}), S("tor"), Opt(S("s"))>>), Cat(<<S("m"), In({"a","e"}), S("st"), Opt(In({"a","e"})), S("r"), Opt(S("s"))>>)>>)>>), WB>>),
   code |-> "35140", occ_title |-> "Website administrator/Webmaster",
   reason |-> "rule_web_admin",
   cue |-> <<>>, title_only_check |-> TRUE],
  \* 84
  [rx |-> Cat(<<WB, Alt(<<Cat(<<S("it"), Plus(WS), S("su"), Plus(S("p")), Opt(S("o")), S("rt"), Opt(S("s"))>>), Cat(<<Alt(<<S("it"), Cat(<<S("tech"), Opt(S("n")), Opt(S("i")), Opt(S("c")), S("al")>>), Cat(<<S("com"), Opt(S("p")), S("ut"), Opt(In({"a","e"})), S("r"), Opt(S("s"))>>)>>), Plus(WS), S("help"), Star(WS), S("desk"), Opt(S("s"))>>), Cat(<<S("desktop"), Opt(S("s")), Plus(WS), S("su"), Plus(S("p")), Opt(S("o")), S("rt"), Opt(S("s"))>>)>>), WB>>),
   code |-> "35123", occ_title |-> "IT support technician",
   reason |-> "rule_it_support",
   cue |-> <<>>, title_only_check |-> TRUE],
  \* 85
  [rx |-> Cat(<<WB, Alt(<<Cat(<<S("exec"), Opt(S("utive")), Opt(S("s")), Plus(WS), S("a"), Plus(S("c")), S("o"), Opt(S("u")), S("nt"), In({"a","e"}), S("nt"), Opt(S("s"))>>), Cat(<<S("financial"), Plus(WS), S("exec"), Opt(S("utive")), Opt(S("s"))>>)>>), WB>>),
   code |-> "24111", occ_title |-> "Accountant (General)",
   reason |-> "rule_exec_accountant",
   cue |-> <<>>, title_only_check |-> TRUE],
  \* 86
  [rx |-> Cat(<<WB, S("a"), Plus(S("c")), S("o"), Opt(S("u")), S("nt"), Opt(S("s")), Star(Dot), WB, S("exec"), Opt(S("utive")), Opt(S("s")), WB>>),
   code |-> "24111", occ_title |-> "Accountant (General)",
   reason |-> "rule_accounts_and_other_exec",
   cue |-> <<>>, title_only_check |-> TRUE],
  \* 87
  [rx |-> Cat(<<BOL, Star(WS), S("a"), Plus(S("c")), S("o"), Opt(S("u")), S("nt"), In({"a","e"}), S("nt"), Opt(S("s")), Star(WS), EOL>>),
   code |-> "24111", occ_title |-> "Accountant (General)",
   reason |-> "rule_accountant_exact",
   cue |-> <<>>, title_only_check |-> TRUE],
  \* 88
  [rx |-> Cat(<<WB, Cat(<<S("a"), Alt(<<Cat(<<Plus(S("s")), S("i"), Plus(S("s")), S("t"), In({"a","e"}), S("nt"), Opt(S("s")), Star(WS), S("a"), Plus(S("c")), S("o"), Opt(S("u")), S("nt"), In({"a","e"}), S("nt"), Opt(S("s"))>>), Cat(<<Plus(S("c")), S("o"), Opt(S("u")), S("nt"), Opt(S("s")), Star(WS), S("a"), Plus(S("s")), S("i"), Plus(S("s")), S("t"), In({"a","e"}), S("nt"), Opt(S("s"))>>)>>)>>), Plus(WS), S("exec"), Opt(S("utive")), Opt(S("s")), WB>>),
   code |-> "33131", occ_title |-> "Assistant accountant",
   reason |-> "rule_asst_accountant_exec",
   cue |-> <<>>, title_only_check |-> TRUE],
  \* 89
  [rx |-> Cat(<<WB, Cat(<<S("a"), Alt(<<Cat(<<Plus(S("s")), S("i"), Plus(S("s")), S("t"), In({"a","e"}), S("nt"), Opt(S("s")), Star(WS), S("a"), Plus(S("c")), S("o"), Opt(S("u")), S("nt"), In({"a","e"}), S("nt"), Opt(S("s"))>>), Cat(<<Plus(S("c")), S("o"), Opt(S("u")), S("nt"), Opt(S("s")), Star(WS), S("a"), Plus(S("s")), S("i"), Plus(S("s")), S("t"), In({"a","e"}), S("nt"), Opt(S("s"))>>)>>)>>), WB>>),
   code |-> "33131", occ_title |-> "Assistant accountant",
   reason |-> "rule_asst_accountant",
   cue |-> <<>>, title_only_check |-> TRUE],
  \* 90
  [rx |-> Cat(<<WB, S("finan"), In({"c","s"}), S("e"), Plus(WS), S("man"), Opt(In({"a","e"})), S("ger"), Opt(S("s")), WB>>),
   code |-> "12111", occ_title |-> "Budgeting/Financial accounting manager",
   reason |-> "rule_finance_manager",
   cue |-> <<>>, title_only_check |-> TRUE],
  \* 91
  [rx |-> Cat(<<WB, Cat(<<S("a"), Alt(<<Cat(<<Plus(S("c")), S("o"), Opt(S("u")), S("nt"), Opt(S("s"))>>), Cat(<<Plus(S("c")), S("t")>>)>>)>>), Plus(WS), S("man"), Opt(In({"a","e"})), S("ger"), Opt(S("s")), WB>>),
   code |-> "12211", occ_title |-> "Sales manager",
   reason |-> "rule_account_manager",
   cue |-> <<>>, title_only_check |-> TRUE],
  \* 92
  [rx |-> Cat(<<WB, Cat(<<S("a"), Plus(S("c")), S("o"), Opt(S("u")), S("nt"), Opt(S("i")), S("ng")>>), Plus(WS), Cat(<<S("ma"), Alt(<<Cat(<<S("n"), Opt(In({"a","e"})), S("ger"), Opt(S("s"))>>), S("anger")>>)>>), WB>>),
   code |-> "12111", occ_title |-> "Budgeting/Financial accounting manager",
   reason |-> "rule_accounting_manager",
   cue |-> <<>>, title_only_check |-> TRUE],
  \* 93
  [rx |-> Cat(<<WB, S("c"), Plus(S("o")), S("k"), WB>>),
   code |-> "51201", occ_title |-> "Cook",
   reason |-> "rule_cook",
   cue |-> <<>>, title_only_check |-> TRUE],
  \* 94
  [rx |-> Cat(<<WB, S("chef"), WB>>),
   code |-> "34341", occ_title |-> "Chef (excluding pastry chef)",
   reason |-> "rule_chef",
   cue |-> <<>>, title_only_check |-> TRUE],
  \* 95
  [rx |-> Cat(<<WB, S("co"), Plus(S("f")), Plus(S("e")), Star(WS), S("mak"), Opt(In({"a","e"})), S("r"), Opt(S("s")), WB>>),
   code |-> "94102", occ_title |-> "Food/Drink stall assistant",
   reason |-> "rule_coffeemaker_stall",
   cue |-> <<>>, title_only_check |-> TRUE],
  \* 96
  [rx |-> Cat(<<WB, S("barista"), Opt(S("s")), WB>>),
   code |-> "51321", occ_title |-> "Barista",
   reason |-> "rule_barista",
   cue |-> <<>>, title_only_check |-> TRUE],
  \* 97
  [rx |-> Cat(<<WB, Alt(<<Cat(<<S("wait"), Opt(In({"a","e"})), S("r"), Opt(S("s"))>>), Cat(<<S("waitre"), Plus(S("s")), S("e"), Opt(S("s"))>>), Cat(<<S("s"), In({"a","e","i"}), S("rvice"), Plus(WS), S("crew")>>)>>), WB>>),
   code |-> "51312", occ_title |-> "Waiter/Waitress",
   reason |-> "rule_waiter",
   cue |-> <<>>, title_only_check |-> TRUE],
  \* 98
  [rx |-> Cat(<<WB, S("sec"), In({"e","u"}), S("rity"), Plus(WS), Alt(<<Cat(<<S("gu"), Opt(S("a")), S("rd"), Opt(S("s"))>>), Cat(<<S("o"), Plus(S("f")), S("icer"), Opt(S("s"))>>)>>), WB>>),
   code |-> "54144", occ_title |-> "Security officer",
   reason |-> "rule_security",
   cue |-> <<>>, title_only_check |-> TRUE],
  \* 99
  [rx |-> Cat(<<WB, Cat(<<S("dish"), Alt(<<Cat(<<Plus(WS), S("washer")>>), S("washer")>>)>>), WB>>),
   code |-> "91153", occ_title |-> "Dishwasher",
   reason |-> "rule_dishwasher",
   cue |-> <<>>, title_only_check |-> TRUE],
  \* 100
  [rx |-> Cat(<<S("food"), Plus(WS), Cat(<<S("pro"), Alt(<<Cat(<<Plus(S("c")), S("e"), Plus(S("s")), S("ing")>>), Cat(<<Plus(S("c")), In({"e","o"}), Plus(S("s")), In({"e","o"}), S("r")>>)>>)>>)>>),
   code |-> "75190", occ_title |-> "Food processing and related trades worker n.e.c.",
   reason |-> "rule_food_processor",
   cue |-> <<>>, title_only_check |-> TRUE],
  \* 101
  [rx |-> Alt(<<Cat(<<WB, S("ma"), Plus(S("s")), S("eur")>>), Cat(<<S("ma"), Plus(S("s")), S("eus"), Opt(S("e"))>>), Cat(<<S("ma"), Plus(S("s")), S("age"), WB>>)>>),
   code |-> "32551", occ_title |-> "Massage therapist",
   reason |-> "rule_massage_therapist",
   cue |-> <<>>, title_only_check |-> TRUE],
  \* 102
  [rx |-> Cat(<<WB, Alt(<<Cat(<<S("past"), In({"e","o"}), S("r"), Opt(S("s"))>>), Cat(<<S("pr"), Rep(2, 2, In({"e","i"})), S("st"), Opt(S("s"))>>), Cat(<<S("rev"), Opt(Cat(<<S("er"), In({"a","e"}), S("nd")>>))>>), Cat(<<S("im"), In({"a","e"}), S("m"), Opt(S("s"))>>), Cat(<<S("monk"), Opt(S("s"))>>), Cat(<<S("clerg"), In({"e","y"})>>)>>), WB>>),
   code |-> "26369", occ_title |-> "Religious professional",
   reason |-> "rule_religious_professional",
   cue |-> <<>>, title_only_check |-> TRUE],
  \* 103
  [rx |-> Cat(<<WB, Alt(<<Cat(<<S("o"), Plus(S("f")), S("ice")>>), S("admin"), Cat(<<S("administ"), Opt(S("r")), In({"a","i"}), S("tive")>>)>>), Plus(WS), S("man"), Opt(In({"a","e"})), S("ger"), Opt(S("s")), WB>>),
   code |-> "12112", occ_title |-> "Administration/Office manager",
   reason |-> "rule_admin_office_manager",
   cue |-> <<>>, title_only_check |-> TRUE],
  \* 104
  [rx |-> Cat(<<WB, Cat(<<S("admin"), Alt(<<S(""), Cat(<<S("ist"), Opt(S("r")), In({"a","i"}), S("tive")>>)>>)>>), Plus(WS), Alt(<<Cat(<<S("exec"), Opt(S("utive")), Opt(S("s"))>>), Cat(<<S("o"), Plus(S("f")), S("icer"), Opt(S("s"))>>)>>), WB>>),
   code |-> "41101", occ_title |-> "General office clerk",
   reason |-> "rule_admin_exec",
   cue |-> <<>>, title_only_check |-> TRUE],
  \* 105
  [rx |-> Cat(<<WB, Cat(<<S("admin"), Alt(<<S(""), Cat(<<S("ist"), Opt(S("r")), In({"a","i"}), S("tive")>>)>>)>>), Plus(WS), Cat(<<S("a"), Plus(S("s")), S("i"), Plus(S("s")), S("t"), In({"a","e"}), S("nt"), Opt(S("s"))>>), WB>>),
   code |-> "41101", occ_title |-> "General office clerk",
   reason |-> "rule_admin_asst",
   cue |-> <<>>, title_only_check |-> TRUE],
  \* 106
  [rx |-> Cat(<<WB, Cat(<<S("admin"), Alt(<<S(""), Cat(<<S("ist"), Opt(S("r")), In({"a","i"}), S("tive")>>)>>)>>), Plus(WS), S("cl"), In({"e","i"}), S("rk"), Opt(S("s")), WB>>),
   code |-> "41101", occ_title |-> "General office clerk",
   reason |-> "rule_admin_clerk",
   cue |-> <<>>, title_only_check |-> TRUE],
  \* 107
  [rx |-> Cat(<<WB, Cat(<<S("admin"), Alt(<<Cat(<<S("ist"), Opt(S("r")), In({"a","i"}), S("tive")>>), S("")>>)>>), Plus(WS), S("work"), Opt(In({"a","e"})), S("r"), Opt(S("s")), WB>>),
   code |-> "41101", occ_title |-> "General office clerk",
   reason |-> "rule_admin_worker",
   cue |-> <<>>, title_only_check |-> TRUE],
  \* 108
  [rx |-> Cat(<<BOL, Star(WS), Cat(<<S("admin"), Alt(<<Cat(<<S("ist"), Opt(S("r")), In({"a","i"}), S("tive")>>), S("")>>)>>), Plus(WS), S("work"), Star(WS), EOL>>),
   code |-> "41101", occ_title |-> "General office clerk",
   reason |-> "rule_admin_work_exact",
   cue |-> <<>>, title_only_check |-> TRUE],
  \* 109
  [rx |-> Cat(<<BOL, Star(WS), Cat(<<S("adm"), Alt(<<S("in"), Cat(<<S("i"), Opt(S("n")), Opt(S("i")), S("stration")>>), Cat(<<S("i"), Opt(S("n")), Opt(S("i")), S("strator")>>), Cat(<<Opt(S("i")), S("n"), Opt(S("i")), S("strat"), Opt(S("i")), S("on")>>)>>)>>), Star(WS), EOL>>),
   code |-> "41101", occ_title |-> "General office clerk",
   reason |-> "rule_admin_exact",
   cue |-> <<>>, title_only_check |-> TRUE],
  \* 110
  [rx |-> Cat(<<WB, S("rec"), In({"e","i"}), S("ptionist"), Opt(S("s")), WB>>),
   code |-> "42261", occ_title |-> "Receptionist",
   reason |-> "rule_receptionist",
   cue |-> <<>>, title_only_check |-> TRUE],
  \* 111
  [rx |-> Cat(<<WB, Cat(<<S("admin"), Alt(<<S(""), Cat(<<S("ist"), Opt(S("r")), In({"a","i"}), S("tive")>>)>>)>>), WB>>),
   code |-> "41101", occ_title |-> "General office clerk",
   reason |-> "rule_admin_general_catch",
   cue |-> <<>>, title_only_check |-> TRUE],
  \* 112
  [rx |-> Cat(<<BOL, Star(WS), S("cl"), In({"e","i"}), S("rk"), Opt(S("s")), Star(WS), EOL>>),
   code |-> "41101", occ_title |-> "General office clerk",
   reason |-> "rule_clerk_exact",
   cue |-> <<>>, title_only_check |-> TRUE],
  \* 113
  [rx |-> Cat(<<WB, Cat(<<S("p"), Alt(<<Cat(<<Opt(In({"a","e"})), S("rson"), In({"a","e"}), S("l"), Opt(S("s")), Plus(WS), S("a"), Plus(S("s")), S("i"), Plus(S("s")), S("t"), In({"a","e"}), S("nt"), Opt(S("s"))>>), S("a")>>)>>), WB>>),
   code |-> "33494", occ_title |-> "Executive secretary",
   reason |-> "rule_personal_assistant_pa",
   cue |-> <<>>, title_only_check |-> TRUE],
  \* 114
  [rx |-> Cat(<<WB, Cat(<<S("op"), Alt(<<Cat(<<Opt(S("e")), S("rat"), Opt(S("i")), S("ons")>>), S("s")>>)>>), Plus(WS), Cat(<<S("ex"), Alt(<<Cat(<<Opt(S("e")), S("c"), Opt(S("u")), S("t"), Opt(S("i")), S("v"), Opt(S("e"))>>), Cat(<<S("ec"), Opt(Dot)>>)>>)>>), WB>>),
   code |-> "33492", occ_title |-> "Operations officer (administrative)",
   reason |-> "rule_ops_exec",
   cue |-> <<>>, title_only_check |-> TRUE]
>>

NoRule == [hit |-> FALSE, code |-> "", occ_title |-> "", reason |-> ""]

RuleHit(code, occ_title, reason) ==
  [hit |-> TRUE, code |-> code, occ_title |-> occ_title, reason |-> reason]

\* title_text or "": the empty str for None and for every other falsy value
OrEmpty(t) == IF t \in {None, IntZero} THEN "" ELSE t

\* f"{t_norm} {d_norm}".strip()
BothNorm(title_str, duties_str) ==
  Strip(Sp(_normalize(OrEmpty(title_str)), _normalize(OrEmpty(duties_str))))

\* RuleFires without the test on rule_admin_exec (C5_EarliestSatisfied tells
\* it from the one below)
RuleFires_NoAdminTest(rule, t_norm, both_norm) ==
  /\ ReSearch(rule.rx, IF rule.title_only_check THEN t_norm ELSE both_norm)
  /\ ~(rule.cue # <<>> /\ ~ReSearch(rule.cue[1], both_norm))

\* the body of the for loop of _apply_baked_rules for one rule: whether the
\* loop returns at this rule
RuleFires(rule, t_norm, both_norm) ==
  /\ ReSearch(rule.rx, IF rule.title_only_check THEN t_norm ELSE both_norm)
  /\ ~(rule.cue # <<>> /\ ~ReSearch(rule.cue[1], both_norm))
  /\ ~(/\ Contains(rule.reason, "rule_admin_exec")
       /\ ~Contains(both_norm, "executive") /\ ~Contains(both_norm, "exec"))

\* the conditional permutations after the loop
CompoundRules(t_norm, both_norm) ==
  IF Contains(t_norm, "supervisor") /\ ReSearch(_CONSTRUCTION_LABOUR_CUES, both_norm)
  THEN RuleHit("83000", "Mobile machinery supervisor/general foreman", "rule_supervisor_construction")
  ELSE IF Contains(t_norm, "manager") /\ ReSearch(_CONSTRUCTION_LABOUR_CUES, both_norm)
  THEN RuleHit("13299", "Other production/operations manager n.e.c.", "rule_manager_construction")
  ELSE IF /\ Contains(t_norm, "engineer")
          /\ \/ ReSearch(_DRAFTER_CUES, both_norm)
             \/ Contains(both_norm, "layout")
             \/ Contains(both_norm, "technical drawing")
          /\ \/ ReSearch(_CONSTRUCTION_LABOUR_CUES, both_norm)
             \/ Contains(both_norm, "civil")
             \/ Contains(both_norm, "structural")
             \/ Contains(both_norm, "construction")
  THEN RuleHit("21421", "Civil engineer", "rule_engineer_drawings_construction")
  ELSE IF Contains(both_norm, "painter")
  THEN IF ReSearch(_VEHICLE_CUES, both_norm)
       THEN RuleHit("71322", "Motor vehicle spray painter", "rule_painter_vehicle_context")
       ELSE RuleHit("71311", "House/Building painter", "rule_painter_building_default")
  ELSE NoRule

RECURSIVE FirstFiring(_, _, _, _)
\* the for loop over _BAKED_RULES[lo-1:hi]: the index of the rule at which the
\* loop returns, 0 if it runs to its end (searched by halves, first half first)
FirstFiring(lo, hi, t_norm, both_norm) ==
  IF lo > hi THEN 0
  ELSE IF lo = hi THEN (IF RuleFires(_BAKED_RULES[lo], t_norm, both_norm) THEN lo ELSE 0)
  ELSE LET m == (lo + hi) \div 2
           l == FirstFiring(lo, m, t_norm, both_norm)
       IN  IF l # 0 THEN l ELSE FirstFiring(m + 1, hi, t_norm, both_norm)

\* the for loop, then the conditional permutations
ScanRules(t_norm, both_norm) ==
  LET i == FirstFiring(1, Len(_BAKED_RULES), t_norm, both_norm)
  IN  IF i # 0
      THEN RuleHit(_BAKED_RULES[i].code, _BAKED_RULES[i].occ_title, _BAKED_RULES[i].reason)
      ELSE CompoundRules(t_norm, both_norm)

\* _apply_baked_rules: (code, title, reason) of the rule that matches, or
\* None (NoRule)
_apply_baked_rules(title_str, duties_str) ==
  ScanRules(_normalize(OrEmpty(title_str)), BothNorm(title_str, duties_str))

(***************************************************************************)
(* The reserved X-codes.                                                   *)
(***************************************************************************)
X_TITLE_MAP ==
  [c \in {"X1000", "X2000", "X3000", "X4000", "X5000"} |->
     CASE c = "X1000" -> "Worker reporting unidentifiable or inadequately described occupation"
       [] c = "X2000" -> "Worker not reporting any occupation"
       [] c = "X3000" -> "Singapore armed forces personnel"
       [] c = "X4000" -> "Foreign armed forces personnel"
       [] c = "X5000" -> "Foreign diplomatic personnel"]

_SG_ARMED_RX ==
  Cat(<<WB, Alt(<<S("saf"), S("singapore armed forces"), S("singapore army"), S("rsn"), S("rsaf"), S("mindef")>>), WB>>)

_FOR_ARMED_RX ==
  Cat(<<WB, Alt(<<S("foreign armed forces"), S("foreign military"), S("u.s."), S("us army"), S("royal navy"), S("adf"), S("pla"), S("idf")>>), WB>>)

\* the accented e of attach[e'] and charg[e'] is left out of the two classes:
\* the pattern is only searched in normalised text, which has a-z and spaces
_DIPLO_RX ==
  Cat(<<WB, Alt(<<S("ambassador"), S("high commissioner"), Cat(<<S("attach"), In({"e"})>>), S("consul"), S("consular"), S("diplomat"), S("diplomatic"), S("embassy"), Cat(<<S("charg"), In({"e"}), Plus(WS), S("d'affaires")>>), S("charge d affaires")>>), WB>>)

NoX == [hit |-> FALSE, code |-> "", title |-> ""]

XHit(c) == [hit |-> TRUE, code |-> c, title |-> X_TITLE_MAP[c]]

\* _xcode_checker with the foreign forces tried before those of Singapore
\* (C22_SpecialCases tells it from the one below)
_xcode_checker_ForeignFirst(duties_str, title_str) ==
  LET d    == _normalize(duties_str)
      t    == _normalize(title_str)
      both == Strip(Sp(d, t))
      sg   == ReSearch(_SG_ARMED_RX, both)
      for  == ReSearch(_FOR_ARMED_RX, both)
      dip  == ReSearch(_DIPLO_RX, both)
  IN  IF d = "" /\ t = "" THEN XHit("X2000")
      ELSE IF for THEN XHit("X4000") ELSE IF sg THEN XHit("X3000")
      ELSE IF dip THEN XHit("X5000") ELSE NoX

\* _xcode_checker: the X-code the two texts call for, or None (NoX)
_xcode_checker(duties_str, title_str) ==
  LET d    == _normalize(duties_str)
      t    == _normalize(title_str)
      both == Strip(Sp(d, t))
      sg   == ReSearch(_SG_ARMED_RX, both)
      for  == ReSearch(_FOR_ARMED_RX, both)
      dip  == ReSearch(_DIPLO_RX, both)
      hits == (IF sg THEN 2 ELSE 0) + (IF for THEN 2 ELSE 0) + (IF dip THEN 2 ELSE 0)
  IN  IF d = "" /\ t = "" THEN XHit("X2000")
      ELSE IF hits >= 2
           THEN (IF sg THEN XHit("X3000") ELSE IF for THEN XHit("X4000")
                 ELSE IF dip THEN XHit("X5000") ELSE NoX)
           ELSE NoX

(***************************************************************************)
(* Vocabulary of the two context scorers.                                  *)
(***************************************************************************)
_SUPERVISORY_TOKENS ==
  {"supervisor", "supervise", "supervising", "supervision",
   "foreman", "foremen", "manager", "managers", "managing",
   "head", "chief", "lead", "leader", "oversee", "overseeing",
   "coordinating", "coordination", "directing", "director",
   "superintendent"}

_GENERIC_ENGINEERING_TOKENS ==
  {"engineer", "engineering", "technical", "technician", "design", "develop",
   "specifications", "testing", "analysis", "solutions", "consultancy"}

\* intersection / float(union), in hundredths (rounded down, at least 1 when
\* the intersection is not empty: the quotient is positive exactly then)
Jaccard(A, B) ==
  IF A \cup B = {} \/ A \cap B = {} THEN 0
  ELSE LET j == (100 * Cardinality(A \cap B)) \div Cardinality(A \cup B)
       IN  IF j = 0 THEN 1 ELSE j

\* ContextScore with the generic vocabulary left in (C10_OverrideValidation
\* tells it from the one below)
ContextScore_Unstripped(query_text, candidate_text, generic) ==
  Jaccard(Range(_tokens(query_text)), Range(_tokens(candidate_text)))

\* the body shared by the two context scorers, for the vocabulary generic
ContextScore(query_text, candidate_text, generic) ==
  LET q_diff_toks == Range(_tokens(query_text)) \ generic
      c_diff_toks == Range(_tokens(candidate_text)) \ generic
  IN  IF q_diff_toks = {} \/ c_diff_toks = {} THEN 0
      ELSE Jaccard(q_diff_toks, c_diff_toks)

_score_manager_context(query_text, candidate_text) ==
  ContextScore(query_text, candidate_text, _SUPERVISORY_TOKENS)

_score_engineer_context(query_text, candidate_text) ==
  ContextScore(query_text, candidate_text, _GENERIC_ENGINEERING_TOKENS)

(***************************************************************************)
(* The catalogue loader.  A sheet is a sequence of rows; a row has the     *)
(* cells code, title, examples and description, each a str or NaN (an      *)
(* empty cell as pandas reads it).  The columns "examples" and             *)
(* "description" are both auxiliary headers; "examples" is also the column *)
(* of alternative titles.                                                  *)
(***************************************************************************)
NaN == "<NaN>"

\* str(v) for a cell
CellStr(v) == IF v = NaN THEN "nan" ELSE v

\* _split_and_normalize_titles
_split_and_normalize_titles(text) ==
  IF ~Contains(text, "/") THEN <<_normalize(text)>>
  ELSE LET parts == SplitOn(text, {"/"})
       IN  [i \in 1..Len(parts) |-> _normalize(parts[i])]

\* rec['alternative_titles']: the examples cell split at ; and , (the bullet
\* character of the pattern is not a character of the model), each piece
\* split at / and normalised
AlternativeTitles(val) ==
  IF val = NaN THEN {}
  ELSE LET raw_alt_titles == SplitOn(CellStr(val), {";", ","})
       IN  UNION {Range(_split_and_normalize_titles(raw_alt_titles[i])) :
                    i \in 1..Len(raw_alt_titles)}

\* " | ".join(p for p in parts if p)
JoinBar(parts) ==
  LET ps == SelectSeq(parts, LAMBDA p : p # "")
  IN  JoinStr([i \in 1..Len(ps) |-> IF i = 1 THEN ps[i] ELSE " | " \o ps[i]], 1, Len(ps))

\* the record load_definitions builds for one row (the fields the scorer
\* alone reads - token sets, bigrams, sector cues - are not kept; the list
\* all_title_variations is kept as the set of its members)
DefRecord(r) ==
  LET code  == Strip(CellStr(r.code))
      title == Strip(CellStr(r.title))
      parts == (IF r.examples # NaN THEN <<CellStr(r.examples)>> ELSE <<>>)
               \o (IF r.description # NaN THEN <<CellStr(r.description)>> ELSE <<>>)
      blob  == IF JoinBar(parts) # "" THEN JoinBar(parts) ELSE title
  IN  [code                 |-> code,
       title                |-> title,
       all_title_variations |-> (Range(_split_and_normalize_titles(title))
                                   \cup AlternativeTitles(r.examples)) \ {""},
       search_text          |-> blob,
       title_norm           |-> _normalize(title),
       is_5d                |-> IsDigit(code) /\ Len(code) = 5]

\* the rows load_definitions keeps: those with a code or a title
LoadRows(sheet) ==
  LET kept == SelectSeq(sheet, LAMBDA r : ~(Strip(CellStr(r.code)) = "" /\ Strip(CellStr(r.title)) = ""))
  IN  [i \in 1..Len(kept) |-> DefRecord(kept[i])]

\* the keys a record puts into the title lookup
TitleKeys(rec) == rec.all_title_variations \cup ({rec.title_norm} \ {""})

\* title_to_record_map: every key leads to the last row that has it (the
\* value is the row's position in the list of records)
TitleMap(rows) ==
  [k \in UNION {TitleKeys(rows[i]) : i \in 1..Len(rows)} |->
     Max({i \in 1..Len(rows) : k \in TitleKeys(rows[i])})]

\* load_definitions: (rows, title_to_record_map)
load_definitions(sheet) ==
  LET rows == LoadRows(sheet) IN <<rows, TitleMap(rows)>>

(***************************************************************************)
(* The expert map loader.  A workbook has the rows of its sheets "Manager"  *)
(* and "Engineer" (a row has the cells orig_title, ssoc_code, ssoc_title)  *)
(* and the flag exists: whether there is a file at the path.               *)
(***************************************************************************)
NoFile == [exists |-> FALSE, Manager |-> <<>>, Engineer |-> <<>>]

\* the rows of the two sheets in the order they are read, each with its three
\* cells as stripped strs, those without a title or a code left out
ExpertRows(book) ==
  LET all == book.Manager \o book.Engineer
      str == [i \in 1..Len(all) |->
                [orig_title |-> Strip(CellStr(all[i].orig_title)),
                 ssoc_code  |-> Strip(CellStr(all[i].ssoc_code)),
                 ssoc_title |-> Strip(CellStr(all[i].ssoc_title))]]
  IN  SelectSeq(str, LAMBDA r : r.orig_title # "" /\ r.ssoc_code # "")

\* load_expert_map: normalised original title -> (code, title); a later row
\* replaces an earlier one with the same key
load_expert_map(book) ==
  IF ~book.exists THEN <<>>
  ELSE LET rows == ExpertRows(book)
           key(i) == _normalize(rows[i].orig_title)
       IN  [k \in {key(i) : i \in 1..Len(rows)} |->
              LET last == rows[Max({i \in 1..Len(rows) : key(i) = k})]
              IN  <<last.ssoc_code, last.ssoc_title>>]

(***************************************************************************)
(* Validation of an expert-map hit.                                        *)
(***************************************************************************)
NoMatch == [hit |-> FALSE, code |-> "", title |-> ""]

Match(code, title) == [hit |-> TRUE, code |-> code, title |-> title]

\* next((rec for rec in all_defs if rec.get("code") == ssoc_code), None): the
\* position of the first record with the code, 0 for None
FirstWithCode(all_defs, ssoc_code) ==
  LET I == {i \in 1..Len(all_defs) : all_defs[i].code = ssoc_code}
  IN  IF I = {} THEN 0 ELSE Min(I)

\* _validate_expert_match with a positive context score asked of every title
\* (C9_AcceptedWhateverDuties tells it from the one below)
_validate_expert_match_scored(title_str, duties_str, em, all_defs) ==
  LET normed_title == _normalize(title_str)
  IN  IF normed_title \notin DOMAIN em THEN NoMatch
      ELSE
        LET ssoc_code     == em[normed_title][1]
            ssoc_title    == em[normed_title][2]
            c             == FirstWithCode(all_defs, ssoc_code)
            combined_text == Sp(title_str, duties_str)
            context_score ==
              IF Contains(normed_title, "manager")
              THEN _score_manager_context(combined_text, all_defs[c].search_text)
              ELSE IF Contains(normed_title, "engineer")
              THEN _score_engineer_context(combined_text, all_defs[c].search_text)
              ELSE 0
        IN  IF c = 0 THEN Match(ssoc_code, ssoc_title)
            ELSE IF context_score > 0 THEN Match(ssoc_code, ssoc_title)
            ELSE NoMatch

\* _validate_expert_match with an entry rejected when no record has its code
\* (C29_UnknownCodeAccepted tells it from the one below)
_validate_expert_match_Known(title_str, duties_str, em, all_defs) ==
  LET normed_title == _normalize(title_str)
  IN  IF normed_title \notin DOMAIN em THEN NoMatch
      ELSE
        LET ssoc_code     == em[normed_title][1]
            ssoc_title    == em[normed_title][2]
            c             == FirstWithCode(all_defs, ssoc_code)
            combined_text == Sp(title_str, duties_str)
            context_score ==
              IF Contains(normed_title, "manager")
              THEN _score_manager_context(combined_text, all_defs[c].search_text)
              ELSE IF Contains(normed_title, "engineer")
              THEN _score_engineer_context(combined_text, all_defs[c].search_text)
              ELSE 0
        IN  IF c = 0 THEN NoMatch
            ELSE IF \/ context_score > 0
                    \/ (~Contains(normed_title, "manager") /\ ~Contains(normed_title, "engineer"))
            THEN Match(ssoc_code, ssoc_title)
            ELSE NoMatch

\* _validate_expert_match: the entry of the expert map for the title, if the
\* context of the duties does not speak against it; None (NoMatch) else
_validate_expert_match(title_str, duties_str, em, all_defs) ==
  LET normed_title == _normalize(title_str)
  IN  IF normed_title \notin DOMAIN em THEN NoMatch
      ELSE
        LET ssoc_code     == em[normed_title][1]
            ssoc_title    == em[normed_title][2]
            c             == FirstWithCode(all_defs, ssoc_code)
            combined_text == Sp(title_str, duties_str)
            context_score ==
              IF Contains(normed_title, "manager")
              THEN _score_manager_context(combined_text, all_defs[c].search_text)
              ELSE IF Contains(normed_title, "engineer")
              THEN _score_engineer_context(combined_text, all_defs[c].search_text)
              ELSE 0
        IN  IF c = 0 THEN Match(ssoc_code, ssoc_title)
            ELSE IF \/ context_score > 0
                    \/ (~Contains(normed_title, "manager") /\ ~Contains(normed_title, "engineer"))
            THEN Match(ssoc_code, ssoc_title)
            ELSE NoMatch

(***************************************************************************)
(* Program constants.                                                      *)
(***************************************************************************)
\* DEFAULT_MIN_SCORE, out of 100
DEFAULT_MIN_SCORE == 5

\* the confidence of a baked-in rule, 0.66
RULE_SCORE == 66

\* the confidence 1.0 of the expert map, the exact title and the X-codes
FULL_SCORE == 100

\* K of _tfidf_topk_indices
K == 150

\* the length of top_5
TOP_N == 5

\* FORCE_ASSIGN (no statement of the program reads it)
FORCE_ASSIGN == TRUE

(***************************************************************************)
(* Inputs of the model.                                                    *)
(***************************************************************************)
\* the most entries of a TF-IDF shortlist
MaxSims == 2

Row(code, title, examples, description) ==
  [code |-> code, title |-> title, examples |-> examples, description |-> description]

ERow(orig_title, ssoc_code, ssoc_title) ==
  [orig_title |-> orig_title, ssoc_code |-> ssoc_code, ssoc_title |-> ssoc_title]

\* a catalogue of managers and engineers: two leaves and their 4-digit parents
SheetA ==
  << Row("1211", "Finance managers", NaN, NaN),
     Row("12111", "Budgeting/Financial accounting manager", "Financial controller; Budget manager",
         "plans budgeting, forecasting of company accounts"),
     Row("2142", "Civil engineers", NaN, NaN),
     Row("21421", "Civil engineer", NaN, "civil engineering of bridges roads and structural works") >>

\* a catalogue with an empty row, a row without a code, a slashed title with
\* alternative titles, and a 4-digit row that repeats an alternative title
SheetB ==
  << Row(" ", "", NaN, NaN),
     Row(NaN, "Craft workers", NaN, NaN),
     Row("75310", "Tailor/Dressmaker", "Seamstress; Sewer/Mender", NaN),
     Row("7531", "Seamstress", NaN, "sews garments") >>

DefSheets == {<<>>, SheetA, SheetB}

\* a workbook of curated titles; the title "123" normalises to the empty str
BookA ==
  [exists   |-> TRUE,
   Manager  |-> << ERow("Finance Director", "12111", "Budgeting/Financial accounting manager"),
                   ERow("HR Manager", "12121", "Personnel/Human resource manager"),
                   ERow("Treasury Manager", "12111", "Budgeting/Financial accounting manager"),
                   ERow("123", "12111", "Budgeting/Financial accounting manager"),
                   ERow("", "12111", "Budgeting/Financial accounting manager") >>,
   Engineer |-> << ERow("Project Engineer", "21421", "Civil engineer"),
                   ERow("Engineering Manager", "21421", "Civil engineer") >>]

ExpertBooks == {NoFile, BookA}

\* --min-score
MinScoreArgs == {0, DEFAULT_MIN_SCORE, 250}

\* the (title, duties) arguments of the calls: strs, None, and ints
Queries ==
  { <<None, None>>, <<"  ", "">>, <<"123", "">>,
    <<"Electrician", "wiring and switchboard installation">>,
    <<"Driver", "">>, <<"Painter", "">>, <<"admin officer", "">>, <<"admin exec", "">>,
    <<"HR Manager", "recruitment">>,
    <<"Finance Director", "P&L, forecasting, budgeting">>,
    <<"Finance Director", "manages the factory floor and machine operators">>,
    <<"Treasury Manager", "cash forecasting">>, <<"Treasury Manager", "oversee vault staff">>,
    <<"Project Engineer", "bridges">>, <<"Project Engineer", "testing software">>,
    <<"Engineering Manager", "technical design">>,
    <<"Sewer", "">>, <<"Seamstress", None>>, <<"Ambassador", "">>,
    <<"Liaison", "SAF posting with the royal navy">>,
    <<"Soldier", "foreign military attache at embassy">>,
    <<IntZero, "">>, <<IntNum, "">>, <<"Sewer", IntNum>> }

\* the scores the scorer may give a record, in hundredths: nothing, just
\* below and at the default threshold, and 1.0
ScoreValues == {0, DEFAULT_MIN_SCORE - 1, DEFAULT_MIN_SCORE, 100}

(***************************************************************************)
(* State.                                                                  *)
(***************************************************************************)
VARIABLES
  defs,          \* the records of load_definitions
  title_map,     \* normalised title -> position of its record in defs
  expert_map,    \* normalised title -> (code, title)
  min_s,         \* the threshold of process_single_file, in hundredths
  tfidf_built,   \* _HAS_SK and the TF-IDF index of main() is built
  pc,            \* where the call of best_match_duties_priority stands
  title_in,      \* the title cell of the job row
  duties_in,     \* the duties cell of the job row
  title_text,    \* the stripped title
  duties_text,   \* the stripped duties
  norm_title,    \* the normalised title
  br,            \* what _apply_baked_rules returned
  expert_match,  \* what _validate_expert_match returned
  scores,        \* the score the scorer gave, for each record it was called on
  top_5,         \* the best candidates, best first
  best_s,        \* the best leaf score, -1 for none
  final,         \* final_code, final_title, final_score, final_search_type
  result,        \* what best_match_duties_priority returned
  out_code,      \* the code process_single_file writes for the row
  out_title,     \* the title process_single_file writes for the row
  fn,            \* a function called on its own: its name, "" for none
  args,          \* the arguments of the call
  ret,           \* what the call returned, in a tuple; <<>> before it returns
  futs,          \* the futures of process_single_file, one for each job row
  results,       \* the list results of process_single_file
  cache,         \* the lru_cache of _normalize and of _tokens_cached
  workers        \* the threads that call _tokens, each with its locals

vars == <<defs, title_map, expert_map, min_s, tfidf_built, pc, title_in, duties_in,
          title_text, duties_text, norm_title, br, expert_match, scores, top_5, best_s,
          final, result, out_code, out_title, fn, args, ret,
          futs, results, cache, workers>>

\* the arguments and the locals of the call that do not change once it has begun
query == <<title_in, duties_in, title_text, duties_text, norm_title>>

config == <<defs, title_map, expert_map, min_s, tfidf_built>>

\* the variables best_match_duties_priority and process_single_file leave alone
aside == <<fn, args, ret, futs, results, cache, workers>>

\* the value of a name that is not bound yet
NoFinal == [code |-> None, title |-> None, score |-> 0, search_type |-> ""]

NoResult ==
  [code |-> None, title |-> None, score |-> 0, explain |-> "", top_5 |-> <<>>, search_type |-> ""]

\* the tuple best_match_duties_priority returns
Result(code, title, score, explain, top5, search_type) ==
  [code |-> code, title |-> title, score |-> score, explain |-> explain,
   top_5 |-> top5, search_type |-> search_type]

\* the explanation str of the scorer, whose text is not modelled
SCORER_EXPLAIN == "<explain>"

\* max(0.0, min(1.0, args.min_score/100.0)), in hundredths
ClampMinScore(arg) == IF arg < 0 THEN 0 ELSE IF arg > 100 THEN 100 ELSE arg

Init ==
  /\ \E sheet \in DefSheets :
       /\ defs = load_definitions(sheet)[1]
       /\ title_map = load_definitions(sheet)[2]
  /\ \E book \in ExpertBooks : expert_map = load_expert_map(book)
  /\ \E arg \in MinScoreArgs : min_s = ClampMinScore(arg)
  /\ tfidf_built \in BOOLEAN
  /\ pc = "idle"
  /\ title_in = None /\ duties_in = None
  /\ title_text = "" /\ duties_text = "" /\ norm_title = ""
  /\ br = NoRule /\ expert_match = NoMatch
  /\ scores = <<>> /\ top_5 = <<>> /\ best_s = -1
  /\ final = NoFinal /\ result = NoResult
  /\ out_code = None /\ out_title = None
  /\ fn = "" /\ args = <<>> /\ ret = <<>>
  /\ futs = <<>> /\ results = <<>>
  /\ cache = <<>> /\ workers = <<>>

(***************************************************************************)
(* best_match_duties_priority, stage by stage.                             *)
(***************************************************************************)
\* the call for one job row: the two texts are stripped, a falsy value read
\* as ""; the call raises on a value that is neither falsy nor a str, and the
\* exception is caught nowhere
Call(t, d) ==
  /\ pc = "idle"
  /\ title_in' = t /\ duties_in' = d
  /\ IF OrEmpty(d) \in NotStr \/ OrEmpty(t) \in NotStr
     THEN \* .strip() of a value that is no str: AttributeError
          /\ pc' = "raised"
          /\ title_text' = "" /\ duties_text' = "" /\ norm_title' = ""
     ELSE /\ pc' = "rules"
          /\ title_text' = Strip(OrEmpty(t))
          /\ duties_text' = Strip(OrEmpty(d))
          /\ norm_title' = _normalize(Strip(OrEmpty(t)))
  /\ br' = NoRule /\ expert_match' = NoMatch
  /\ scores' = <<>> /\ top_5' = <<>> /\ best_s' = -1
  /\ final' = NoFinal /\ result' = NoResult
  /\ out_code' = None /\ out_title' = None
  /\ UNCHANGED <<aside, config>>

\* RuleResult with the confidence of an exact match (C4_RuleResult tells it
\* from the one below)
RuleResult_Full(b) == Result(b.code, b.occ_title, FULL_SCORE, b.reason, <<>>, "Baked-in Rule")

\* what is returned for the rule hit b
RuleResult(b) == Result(b.code, b.occ_title, RULE_SCORE, b.reason, <<>>, "Baked-in Rule")

\* BakedRules with the hit left aside and the expert map tried anyway
\* (C3_RulesFirst tells it from the one below)
BakedRules_Ignored ==
  /\ pc = "rules"
  /\ br' = _apply_baked_rules(title_text, duties_text)
  /\ result' = result /\ pc' = "expert"
  /\ UNCHANGED <<aside, config, query, expert_match,
                 scores, top_5, best_s, final, out_code, out_title>>

\* 1. the baked-in rules
BakedRules ==
  /\ pc = "rules"
  /\ LET b == _apply_baked_rules(title_text, duties_text)
     IN  /\ br' = b
         /\ IF b.hit
            THEN result' = RuleResult(b) /\ pc' = "return"
            ELSE result' = result /\ pc' = "expert"
  /\ UNCHANGED <<aside, config, query, expert_match,
                 scores, top_5, best_s, final, out_code, out_title>>

\* what is returned for the validated expert-map hit m
ExpertResult(m) ==
  Result(m.code, m.title, FULL_SCORE, "Expert Map Match (Validated)", <<>>, "Expert Map Match")

\* 2. the validated expert map
ExpertMap ==
  /\ pc = "expert"
  /\ LET m == _validate_expert_match(title_text, duties_text, expert_map, defs)
     IN  /\ expert_match' = m
         /\ IF m.hit
            THEN result' = ExpertResult(m) /\ pc' = "return"
            ELSE result' = result /\ pc' = "title"
  /\ UNCHANGED <<aside, config, query, br,
                 scores, top_5, best_s, final, out_code, out_title>>

\* ExactTitleRecord without the test on is_5d (C6_ExactTitle tells it from
\* the one below)
ExactTitleRecord_AnyLevel(tm, all_defs, key) ==
  IF key \in DOMAIN tm THEN tm[key] ELSE 0

\* the record an exact title match returns: the one the title map has for the
\* normalised title, if it is a 5-digit one; 0 for no match
ExactTitleRecord(tm, all_defs, key) ==
  IF key \in DOMAIN tm /\ all_defs[tm[key]].is_5d THEN tm[key] ELSE 0

\* 3. the exact title match
ExactTitle ==
  /\ pc = "title"
  /\ LET i == ExactTitleRecord(title_map, defs, norm_title)
     IN  IF i # 0
         THEN /\ result' = Result(defs[i].code, defs[i].title, FULL_SCORE,
                                  "Exact Title Match", <<>>, "Exact Title Match")
              /\ pc' = "return"
         ELSE result' = result /\ pc' = "xcode"
  /\ UNCHANGED <<aside, config, query, br, expert_match,
                 scores, top_5, best_s, final, out_code, out_title>>

\* the X-codes and the empty input
XCodes ==
  /\ pc = "xcode"
  /\ LET xhit == _xcode_checker(duties_text, title_text)
     IN  IF xhit.hit /\ xhit.code \in {"X3000", "X4000", "X5000"}
         THEN /\ result' = Result(xhit.code, xhit.title, FULL_SCORE, "xcode-direct", <<>>, "X-Code")
              /\ pc' = "return"
         ELSE IF duties_text = "" /\ title_text = ""
         THEN /\ result' = Result("X2000", X_TITLE_MAP["X2000"], FULL_SCORE,
                                  "xcode-noinfo", <<>>, "No Input")
              /\ pc' = "return"
         ELSE result' = result /\ pc' = "score"
  /\ UNCHANGED <<aside, config, query, br, expert_match,
                 scores, top_5, best_s, final, out_code, out_title>>

(***************************************************************************)
(* The scoring engine.  The score _score_vs_record_precomputed gives a     *)
(* record for a query, and the similarities of the TF-IDF index, are       *)
(* inputs: sc maps the position of a record to its score, sims lists the   *)
(* positions of the records of non-zero similarity, most similar first.    *)
(***************************************************************************)
NoList == [none |-> TRUE, idx |-> <<>>]

SomeList(idx) == [none |-> FALSE, idx |-> idx]

\* the lists of distinct positions of n records, of at most MaxSims entries
Shortlists(n) ==
  UNION {{s \in [1..k -> 1..n] : \A i, j \in 1..k : i # j => s[i] # s[j]} : k \in 0..MaxSims}

\* _tfidf_topk_indices without the cut to the K most similar
\* (C23_CostBoundedByShortlist tells it from the one below)
_tfidf_topk_indices_Uncut(query_text, built, sims) ==
  IF ~built THEN NoList
  ELSE IF _normalize(query_text) = "" THEN NoList
  ELSE IF Len(sims) = 0 THEN NoList
  ELSE SomeList(sims)

\* _tfidf_topk_indices: None without the index, for a query that normalises
\* to nothing and for no similar record; else the K most similar
_tfidf_topk_indices(query_text, built, sims) ==
  IF ~built THEN NoList
  ELSE IF _normalize(query_text) = "" THEN NoList
  ELSE IF Len(sims) = 0 THEN NoList
  ELSE SomeList(SubSeq(sims, 1, IF Len(sims) <= K THEN Len(sims) ELSE K))

\* the positions of the 5-digit records among idx, in the order of idx
FiveDigit(all_defs, idx) == SelectSeq(idx, LAMBDA i : all_defs[i].is_5d)

\* the for loop that keeps the best score: the entry of cand that has the
\* greatest score, the first of them (s > best_s is strict); 0 for no entry
BestOf(cand, sc) ==
  IF Len(cand) = 0 THEN 0
  ELSE LET top == Max({sc[cand[j]] : j \in 1..Len(cand)})
       IN  cand[Min({j \in 1..Len(cand) : sc[cand[j]] = top})]

\* SortByScore with entries of the same score in the reverse of the order
\* they had (C28_Top5 tells it from the one below)
SortByScore_Unstable(cand, sc) ==
  LET rank(j) == 1 + Cardinality({k \in 1..Len(cand) :
                        \/ sc[cand[k]] > sc[cand[j]]
                        \/ (sc[cand[k]] = sc[cand[j]] /\ k > j)})
  IN  [r \in 1..Len(cand) |-> cand[CHOOSE j \in 1..Len(cand) : rank(j) = r]]

\* all_candidates.sort(key=score, reverse=True): by falling score, entries of
\* the same score in the order they had (the sort is stable)
SortByScore(cand, sc) ==
  LET rank(j) == 1 + Cardinality({k \in 1..Len(cand) :
                        \/ sc[cand[k]] > sc[cand[j]]
                        \/ (sc[cand[k]] = sc[cand[j]] /\ k < j)})
  IN  [r \in 1..Len(cand) |-> cand[CHOOSE j \in 1..Len(cand) : rank(j) = r]]

\* an entry of all_candidates
Candidate(all_defs, i, sc) ==
  [score |-> sc[i], code |-> all_defs[i].code, title |-> all_defs[i].title]

\* NoCandidateResult with None for the code (C1_Totality tells it from the
\* one below)
NoCandidateResult_NoCode(top5) ==
  Result(None, X_TITLE_MAP["X1000"], 0, "xcode-no-match-found", top5,
         "Title + Duties (Combined)")

\* what is returned when no record was scored
NoCandidateResult(top5) ==
  Result("X1000", X_TITLE_MAP["X1000"], 0, "xcode-no-match-found", top5,
         "Title + Duties (Combined)")

\* Score with the list defs itself cut down to the records that are scored
\* (C27_SharedUnchanged tells it from the one below)
Score_InPlace ==
  /\ pc = "score"
  /\ \E q_text \in {Strip(Sp(title_text, duties_text))} :
     \E cand_indices \in {_tfidf_topk_indices(q_text, tfidf_built, sims) :
                            sims \in Shortlists(Len(defs))} :
     \E cand_iter_5d \in {IF cand_indices.none
                          THEN FiveDigit(defs, [i \in 1..Len(defs) |-> i])
                          ELSE FiveDigit(defs, cand_indices.idx)} :
     \E sc \in [Range(cand_iter_5d) -> ScoreValues] :
     \E sorted \in {SortByScore(cand_iter_5d, sc)} :
     \E best_r \in {BestOf(cand_iter_5d, sc)} :
           /\ scores' = sc
           /\ defs' = [j \in 1..Len(cand_iter_5d) |-> defs[cand_iter_5d[j]]]
           /\ top_5' = [j \in 1..(IF Len(sorted) < TOP_N THEN Len(sorted) ELSE TOP_N) |->
                          Candidate(defs, sorted[j], sc)]
           /\ IF best_r = 0
              THEN /\ result' = NoCandidateResult(top_5')
                   /\ pc' = "return"
                   /\ UNCHANGED <<best_s, final>>
              ELSE /\ best_s' = sc[best_r]
                   /\ final' = [code |-> defs[best_r].code, title |-> defs[best_r].title,
                                score |-> sc[best_r],
                                search_type |-> "Title + Duties (Combined)"]
                   /\ pc' = "fallback"
                   /\ UNCHANGED result
  /\ UNCHANGED <<aside, title_map, expert_map, min_s, tfidf_built, query, br, expert_match,
                 out_code, out_title>>

\* 4. the scoring engine, up to the choice of the best leaf
Score ==
  /\ pc = "score"
  /\ \E q_text \in {Strip(Sp(title_text, duties_text))} :
     \E cand_indices \in {_tfidf_topk_indices(q_text, tfidf_built, sims) :
                            sims \in Shortlists(Len(defs))} :
     \E cand_iter_5d \in {IF cand_indices.none
                          THEN FiveDigit(defs, [i \in 1..Len(defs) |-> i])
                          ELSE FiveDigit(defs, cand_indices.idx)} :
     \E sc \in [Range(cand_iter_5d) -> ScoreValues] :
     \E sorted \in {SortByScore(cand_iter_5d, sc)} :
     \E best_r \in {BestOf(cand_iter_5d, sc)} :
           /\ scores' = sc
           /\ top_5' = [j \in 1..(IF Len(sorted) < TOP_N THEN Len(sorted) ELSE TOP_N) |->
                          Candidate(defs, sorted[j], sc)]
           /\ IF best_r = 0
              THEN /\ result' = NoCandidateResult(top_5')
                   /\ pc' = "return"
                   /\ UNCHANGED <<best_s, final>>
              ELSE /\ best_s' = sc[best_r]
                   /\ final' = [code |-> defs[best_r].code, title |-> defs[best_r].title,
                                score |-> sc[best_r],
                                search_type |-> "Title + Duties (Combined)"]
                   /\ pc' = "fallback"
                   /\ UNCHANGED result
  /\ UNCHANGED <<aside, config, query, br, expert_match,
                 out_code, out_title>>

\* the records _find_best_4_digit_parent scores: those whose code is the first
\* four characters of the code of a candidate of top_5, in the order of defs
ParentRecords(top5, all_defs) ==
  LET parent_codes == {Prefix(top5[j].code, 4) : j \in {k \in 1..Len(top5) : top5[k].code # ""}}
  IN  SelectSeq([i \in 1..Len(all_defs) |-> i], LAMBDA i : all_defs[i].code \in parent_codes)

\* _find_best_4_digit_parent with the first parent record taken whatever its
\* score (C20_ParentFallback tells it from the one below)
_find_best_4_digit_parent_First(top5, all_defs, sc) ==
  IF Len(top5) = 0 \/ Len(ParentRecords(top5, all_defs)) = 0 THEN 0
  ELSE ParentRecords(top5, all_defs)[1]

\* _find_best_4_digit_parent: the position of the best parent record, 0 for
\* None
_find_best_4_digit_parent(top5, all_defs, sc) ==
  IF Len(top5) = 0 THEN 0 ELSE BestOf(ParentRecords(top5, all_defs), sc)

\* the parent fallback: below the bar, the best 4-digit parent of the top 5
\* takes the place of the leaf if it reaches the bar
ParentFallback ==
  /\ pc = "fallback"
  /\ LET accept_bar == min_s
         parents    == IF best_s < accept_bar THEN ParentRecords(top_5, defs) ELSE <<>>
     IN  \E sc \in [Range(parents) -> ScoreValues] :
         \E p \in {IF best_s < accept_bar
                   THEN _find_best_4_digit_parent(top_5, defs, sc) ELSE 0} :
               /\ scores' = [i \in DOMAIN scores \cup DOMAIN sc |->
                              IF i \in DOMAIN sc THEN sc[i] ELSE scores[i]]
               /\ IF p # 0 /\ sc[p] >= accept_bar
                  THEN final' = [code |-> defs[p].code, title |-> defs[p].title,
                                 score |-> sc[p], search_type |-> "4-Digit Fallback"]
                  ELSE final' = final
  /\ pc' = "guard"
  /\ UNCHANGED <<aside, config, query, br, expert_match,
                 top_5, best_s, result, out_code, out_title>>

\* Guarded without the substitution (C2_ForcedAssignment tells it from the
\* one below)
Guarded_Off(code, title, score, threshold) == <<code, title>>

\* the code and the title after the guard: X1000 for a score below the
\* threshold, unless the code is an X-code already
Guarded(code, title, score, threshold) ==
  IF score < threshold /\ ~StartsWith(code, "X")
  THEN <<"X1000", X_TITLE_MAP["X1000"]>>
  ELSE <<code, title>>

\* the guard of the last lines, and the return
ForcedGuard ==
  /\ pc = "guard"
  /\ LET g == Guarded(final.code, final.title, final.score, min_s)
     IN  result' = Result(g[1], g[2], final.score, SCORER_EXPLAIN, top_5, final.search_type)
  /\ pc' = "return"
  /\ UNCHANGED <<aside, config, query, br, expert_match,
                 scores, top_5, best_s, final, out_code, out_title>>

(***************************************************************************)
(* process_single_file: the guard is applied once more to what was         *)
(* returned, and the code and the title are written for the row; the       *)
(* locals of the call and the tuple it returned are gone.                  *)
(***************************************************************************)
WriteBack ==
  /\ pc = "return"
  /\ LET g == Guarded(result.code, result.title, result.score, min_s)
     IN  out_code' = g[1] /\ out_title' = g[2]
  /\ pc' = "idle"
  /\ title_text' = "" /\ duties_text' = "" /\ norm_title' = ""
  /\ br' = NoRule /\ expert_match' = NoMatch
  /\ scores' = <<>> /\ top_5' = <<>> /\ best_s' = -1 /\ final' = NoFinal
  /\ result' = NoResult
  /\ UNCHANGED <<aside, config, title_in, duties_in>>

Next ==
  \/ \E q \in Queries : Call(q[1], q[2])
  \/ BakedRules
  \/ ExpertMap
  \/ ExactTitle
  \/ XCodes
  \/ Score
  \/ ParentFallback
  \/ ForcedGuard
  \/ WriteBack

Spec == Init /\ [][Next]_vars


(***************************************************************************)
(* Functions called on their own.  The variables of the cascade stay as    *)
(* they are before the first job row, on an empty catalogue.               *)
(***************************************************************************)
\* every variable of the cascade, of process_single_file and of main
cascade == <<config, pc, query, br, expert_match, scores, top_5, best_s, final, result,
             out_code, out_title>>

NoCascade ==
  /\ defs = <<>> /\ title_map = <<>> /\ expert_map = <<>>
  /\ min_s = DEFAULT_MIN_SCORE /\ tfidf_built = FALSE
  /\ pc = "idle"
  /\ title_in = None /\ duties_in = None
  /\ title_text = "" /\ duties_text = "" /\ norm_title = ""
  /\ br = NoRule /\ expert_match = NoMatch
  /\ scores = <<>> /\ top_5 = <<>> /\ best_s = -1
  /\ final = NoFinal /\ result = NoResult
  /\ out_code = None /\ out_title = None

\* the caches and the threads that fill them
memo == <<cache, workers>>

\* no call of a cached function
NoMemo == cache = <<>> /\ workers = <<>>

\* the call of the function f on the arguments a has not returned yet
Pending(f) == fn = f /\ ret = <<>>

\* the call returns v
Return(v) == ret' = <<v>> /\ UNCHANGED <<fn, args, cascade, memo>>

\* no thread pool
NoPool == futs = <<>> /\ results = <<>>


(***************************************************************************)
(* The scoring engine as a function of the scorer and of the shortlist.    *)
(***************************************************************************)
\* lines 1998-2040 of best_match_duties_priority, when the scorer gives the
\* record at position i the score sc[i] and _tfidf_topk_indices gives
\* cand_indices
ScoringEngine(all_defs, cand_indices, sc, threshold) ==
  LET cand_iter_5d == IF cand_indices.none
                      THEN FiveDigit(all_defs, [i \in 1..Len(all_defs) |-> i])
                      ELSE FiveDigit(all_defs, cand_indices.idx)
      sorted == SortByScore(cand_iter_5d, sc)
      top5   == [j \in 1..(IF Len(sorted) < TOP_N THEN Len(sorted) ELSE TOP_N) |->
                   Candidate(all_defs, sorted[j], sc)]
      best_r == BestOf(cand_iter_5d, sc)
  IN  IF best_r = 0 THEN NoCandidateResult(top5)
      ELSE
        LET p == IF sc[best_r] < threshold
                 THEN _find_best_4_digit_parent(top5, all_defs, sc) ELSE 0
            f == IF p # 0 /\ sc[p] >= threshold
                 THEN [code |-> all_defs[p].code, title |-> all_defs[p].title,
                       score |-> sc[p], search_type |-> "4-Digit Fallback"]
                 ELSE [code |-> all_defs[best_r].code, title |-> all_defs[best_r].title,
                       score |-> sc[best_r], search_type |-> "Title + Duties (Combined)"]
            g == Guarded(f.code, f.title, f.score, threshold)
        IN  Result(g[1], g[2], f.score, SCORER_EXPLAIN, top5, f.search_type)

\* the catalogues, queries, similarity lists, scorers and thresholds the
\* engine is run on
EngineArgs ==
  UNION {[all_defs : {load_definitions(sheet)[1]},
          q_text : {"senior tailor", "123"},
          sims : Shortlists(Len(load_definitions(sheet)[1])),
          sc : [1..Len(load_definitions(sheet)[1]) -> {0, DEFAULT_MIN_SCORE, FULL_SCORE}],
          threshold : {DEFAULT_MIN_SCORE, FULL_SCORE}] : sheet \in {SheetA, SheetB}}

InitEngine ==
  /\ NoCascade
  /\ fn = "scoring_engine" /\ args \in EngineArgs /\ ret = <<>>
  /\ NoPool /\ NoMemo

\* the engine is run twice on the same arguments: with the TF-IDF index of
\* main() built, and without it
RunEngine ==
  /\ Pending("scoring_engine")
  /\ Return([indexed |->
               ScoringEngine(args.all_defs,
                             _tfidf_topk_indices(args.q_text, TRUE, args.sims),
                             args.sc, args.threshold),
             unindexed |->
               ScoringEngine(args.all_defs,
                             _tfidf_topk_indices(args.q_text, FALSE, args.sims),
                             args.sc, args.threshold)])
  /\ UNCHANGED <<futs, results, memo>>

NextEngine == RunEngine

SpecEngine == InitEngine /\ [][NextEngine]_vars

(***************************************************************************)
(* process_single_file: the rows of one file, scored one after the other   *)
(* or by a pool of threads.  The catalogue and the expert map are empty.   *)
(***************************************************************************)
\* best_match_duties_priority for an empty catalogue and an empty expert map
MatchUnloaded(t, d) ==
  LET duties == Strip(OrEmpty(d))
      title  == Strip(OrEmpty(t))
      b      == _apply_baked_rules(title, duties)
      xhit   == _xcode_checker(duties, title)
  IN  IF b.hit THEN RuleResult(b)
      ELSE IF xhit.hit /\ xhit.code \in {"X3000", "X4000", "X5000"}
      THEN Result(xhit.code, xhit.title, FULL_SCORE, "xcode-direct", <<>>, "X-Code")
      ELSE IF duties = "" /\ title = ""
      THEN Result("X2000", X_TITLE_MAP["X2000"], FULL_SCORE, "xcode-noinfo", <<>>, "No Input")
      ELSE NoCandidateResult(<<>>)

\* the number of job rows of a file
MaxRows == 3

\* the (title, duties) a job row may have, as load_jobs_separate gives them
RowValues == {<<"Driver", "">>, <<"Electrician", "wiring and switchboard installation">>,
              <<"", "">>}

\* what _score_row returns for a row, but for its index
RowOutcomes == [q \in RowValues |-> MatchUnloaded(q[1], q[2])]

\* _score_row(i, t, d, e, g)
_score_row(i, q) == [i |-> i, r |-> RowOutcomes[q]]

\* --threads
ThreadArgs == {1, 2}

FileArgs ==
  [rows : UNION {[1..n -> RowValues] : n \in 1..MaxRows},
   threads : ThreadArgs,
   min_score : {DEFAULT_MIN_SCORE, 250}]

InitFile ==
  /\ NoCascade
  /\ fn = "process_single_file" /\ args \in FileArgs /\ ret = <<>>
  /\ NoPool /\ NoMemo

\* the futures that are being run
Running == {i \in DOMAIN futs : futs[i].state = "running"}

\* ex.submit for every row
SubmitRows ==
  /\ Pending("process_single_file") /\ args.threads > 1 /\ futs = <<>>
  /\ futs' = [i \in 1..Len(args.rows) |-> [state |-> "queued", value |-> <<>>, yielded |-> 0]]
  /\ UNCHANGED <<fn, args, ret, results, cascade, memo>>

\* a free thread of the pool takes the row that has waited longest
StartRow(i) ==
  /\ Pending("process_single_file")
  /\ i \in DOMAIN futs /\ futs[i].state = "queued"
  /\ \A j \in DOMAIN futs : futs[j].state = "queued" => i <= j
  /\ Cardinality(Running) < args.threads
  /\ futs' = [futs EXCEPT ![i].state = "running"]
  /\ UNCHANGED <<fn, args, ret, results, cascade, memo>>

\* _score_row returns in its thread
FinishRow(i) ==
  /\ Pending("process_single_file")
  /\ i \in Running
  /\ futs' = [futs EXCEPT ![i].state = "done", ![i].value = <<_score_row(i, args.rows[i])>>]
  /\ UNCHANGED <<fn, args, ret, results, cascade, memo>>

\* as_completed yields a future that is done: results.append(fut.result())
Collect(i) ==
  /\ Pending("process_single_file")
  /\ i \in DOMAIN futs /\ futs[i].state = "done"
  /\ results' = Append(results, futs[i].value[1])
  /\ futs' = [futs EXCEPT ![i].state = "yielded", ![i].yielded = Len(results) + 1]
  /\ UNCHANGED <<fn, args, ret, cascade, memo>>

\* the loop without threads: the next row is scored and appended
ScoreNextRow ==
  /\ Pending("process_single_file") /\ args.threads <= 1
  /\ Len(results) < Len(args.rows)
  /\ results' = Append(results, _score_row(Len(results) + 1, args.rows[Len(results) + 1]))
  /\ UNCHANGED <<fn, args, ret, futs, cascade, memo>>

\* results left in the order of completion (C13_OrderPreserved tells it from
\* the one below)
SortByIndex_Skipped(rs) == rs

\* results.sort(key=lambda x: x[0])
SortByIndex(rs) ==
  [k \in 1..Len(rs) |->
     rs[CHOOSE j \in 1..Len(rs) : Cardinality({m \in 1..Len(rs) : rs[m].i < rs[j].i}) = k - 1]]

\* the loop that fills out_codes and out_titles from results
WrittenRows(rs, threshold) ==
  [k \in 1..Len(rs) |-> Guarded(rs[k].r.code, rs[k].r.title, rs[k].r.score, threshold)]

\* every row is scored: with threads the results are sorted; then the codes
\* and titles go to the write-back in the order of results
WriteRows ==
  /\ Pending("process_single_file")
  /\ Len(results) = Len(args.rows)
  /\ \E rs \in {IF args.threads > 1 THEN SortByIndex(results) ELSE results} :
       /\ results' = rs
       /\ ret' = <<WrittenRows(rs, ClampMinScore(args.min_score))>>
  /\ UNCHANGED <<fn, args, futs, cascade, memo>>

NextFile ==
  \/ SubmitRows
  \/ \E i \in 1..MaxRows : StartRow(i)
  \/ \E i \in 1..MaxRows : FinishRow(i)
  \/ \E i \in 1..MaxRows : Collect(i)
  \/ ScoreNextRow
  \/ WriteRows

SpecFile == InitFile /\ [][NextFile]_vars

(***************************************************************************)
(* The memoization caches.  _normalize and _tokens_cached are wrapped by   *)
(* functools.lru_cache: a call looks its argument up; on a hit the entry   *)
(* becomes the most recently used one and its value is returned; on a miss *)
(* the function runs outside the lock of the cache, and the value is       *)
(* stored afterwards unless another thread stored the key meanwhile; a     *)
(* full cache drops its least recently used entry.  A cache is the         *)
(* sequence of its entries, the least recently used one first.  The        *)
(* threads of the pool call _tokens, one text after the other.             *)
(***************************************************************************)
\* maxsize of the caches
MaxCache == 2

\* the threads of the pool
Threads == {1, 2}

\* the number of texts a thread tokenises, and the texts
MaxCalls == 2

CacheTexts == {"Senior Bus-Driver", "senior bus driver", "A/C repair 24"}

CacheKeys(c) == {c[i].key : i \in DOMAIN c}

CacheIndex(c, k) == CHOOSE i \in DOMAIN c : c[i].key = k

\* the value of another entry (C14_CacheTransparent tells it from CacheValue)
CacheValue_Last(c, k) == c[Len(c)].value

\* the value stored for the key k
CacheValue(c, k) == c[CacheIndex(c, k)].value

\* a hit: the entry of k becomes the most recently used
CacheTouch(c, k) == Append(SelectSeq(c, LAMBDA e : e.key # k), c[CacheIndex(c, k)])

\* after a miss: the value v is stored for k
CachePut(c, k, v) ==
  IF k \in CacheKeys(c) THEN c
  ELSE Append(IF Len(c) >= MaxCache THEN Tail(c) ELSE c, [key |-> k, value |-> v])

IdleWorker == [pc |-> "idle", t |-> "", n |-> "", out |-> <<>>, hit |-> FALSE, calls |-> 0]

InitCache ==
  /\ NoCascade /\ title_in = None /\ duties_in = None
  /\ title_text = "" /\ duties_text = "" /\ norm_title = ""
  /\ NoPool
  /\ fn = "_tokens" /\ args = <<>> /\ ret = <<>>
  /\ cache = [_normalize |-> <<>>, _tokens_cached |-> <<>>]
  /\ workers = [w \in Threads |-> IdleWorker]

Shared == <<fn, args, ret, futs, results, cascade, title_in, duties_in, title_text, duties_text, norm_title>>

\* a thread calls _tokens(t)
CallTokens(w, t) ==
  /\ fn = "_tokens"
  /\ workers[w].pc \in {"idle", "returned"} /\ workers[w].calls < MaxCalls
  /\ workers' = [workers EXCEPT ![w] = [pc |-> "_tokens_cached", t |-> t, n |-> "", out |-> <<>>,
                                         hit |-> FALSE, calls |-> @.calls + 1]]
  /\ UNCHANGED <<cache, Shared>>

\* _tokens_cached(t): the lookup; on a hit _tokens returns list(the value)
TokensLookup(w) ==
  /\ fn = "_tokens" /\ workers[w].pc = "_tokens_cached"
  /\ IF workers[w].t \in CacheKeys(cache._tokens_cached)
     THEN /\ workers' = [workers EXCEPT ![w].pc = "returned", ![w].hit = TRUE,
                                        ![w].out = <<CacheValue(cache._tokens_cached, workers[w].t)>>]
          /\ cache' = [cache EXCEPT !._tokens_cached = CacheTouch(@, workers[w].t)]
     ELSE /\ workers' = [workers EXCEPT ![w].pc = "_normalize"]
          /\ UNCHANGED cache
  /\ UNCHANGED Shared

\* the body of _tokens_cached calls _normalize(t): the lookup, and on a miss
\* the body of _normalize
NormalizeLookup(w) ==
  /\ fn = "_tokens" /\ workers[w].pc = "_normalize"
  /\ IF workers[w].t \in CacheKeys(cache._normalize)
     THEN /\ workers' = [workers EXCEPT ![w].pc = "tokens_store", ![w].hit = TRUE,
                                        ![w].n = CacheValue(cache._normalize, workers[w].t)]
          /\ cache' = [cache EXCEPT !._normalize = CacheTouch(@, workers[w].t)]
     ELSE /\ workers' = [workers EXCEPT ![w].pc = "normalize_store", ![w].n = _normalize(workers[w].t)]
          /\ UNCHANGED cache
  /\ UNCHANGED Shared

\* the value of _normalize is stored
NormalizeStore(w) ==
  /\ fn = "_tokens" /\ workers[w].pc = "normalize_store"
  /\ cache' = [cache EXCEPT !._normalize = CachePut(@, workers[w].t, workers[w].n)]
  /\ workers' = [workers EXCEPT ![w].pc = "tokens_store"]
  /\ UNCHANGED Shared

\* the rest of the body of _tokens_cached; its value is stored and _tokens
\* returns list(the value)
TokensStore(w) ==
  /\ fn = "_tokens" /\ workers[w].pc = "tokens_store"
  /\ \E v \in {TokenFilter(workers[w].n)} :
       /\ cache' = [cache EXCEPT !._tokens_cached = CachePut(@, workers[w].t, v)]
       /\ workers' = [workers EXCEPT ![w].pc = "returned", ![w].out = <<v>>]
  /\ UNCHANGED Shared

NextCache ==
  \E w \in Threads :
    \/ \E t \in CacheTexts : CallTokens(w, t)
    \/ TokensLookup(w)
    \/ NormalizeLookup(w)
    \/ NormalizeStore(w)
    \/ TokensStore(w)

SpecCache == InitCache /\ [][NextCache]_vars

(***************************************************************************)
(* Sector cues and the industry multiplier.                                *)
(***************************************************************************)
SECTOR_ANCHORS == [
  managers |-> {"board", "budget", "ceo", "cfo", "chairman", "chief", "cio",
      "coo", "cto", "director", "executive", "general", "governance", "kpi",
      "manager", "managing", "planning", "policy", "strategic", "strategy",
      "targets"},
  construction |-> {"architectural", "autocad", "bim", "boq", "brick",
      "building", "carpentry", "clerk_of_works", "concrete", "construction",
      "crane", "draft", "drafter", "draught", "drywall", "excavation",
      "fitout", "foreman", "formwork", "glazier", "joinery", "masonry",
      "mep", "pile", "piling", "plant", "plaster", "quantity", "rebar",
      "renovation", "rigger", "roof", "roofer", "scaffolding", "site",
      "structural", "superintendent", "tiling", "tunnel", "worksite"},
  mfg |-> {"assembler", "assembly", "calibration", "cnc", "commissioning",
      "factory", "lathe", "line", "machining", "maintenance",
      "manufacturing", "milling", "operator", "plant", "process",
      "production", "qa", "qc", "quality", "tooling"},
  mfg_electronics |-> {"bonding", "cleanroom", "die", "esd", "fab", "ic",
      "mems", "pcb", "semiconductor", "smt", "solder", "wafer"},
  mfg_chemical |-> {"adhesive", "blending", "chemical", "coating",
      "distillation", "paint", "petrochemical", "polymer", "reactor",
      "refinery"},
  mfg_food |-> {"baking", "brewery", "butcher", "central", "confectionery",
      "dairy", "distillery", "haccp", "halal", "kitchen", "slaughter"},
  transport |-> {"bus", "cargo", "deliver", "delivery", "dispatch", "driver",
      "driving", "freight", "hire", "lorry", "mover", "mrt", "passengers",
      "prime", "private", "rail", "route", "station", "taxi", "trailer",
      "train", "truck", "van"},
  logistics |-> {"awb", "bonded", "container", "dc", "forklift", "hub",
      "inventory", "logistics", "manifest", "packing", "picking", "port",
      "quay", "reachtruck", "stock", "storekeeper", "storeman", "warehouse",
      "yard"},
  aviation_marine |-> {"aircraft", "airline", "airport", "cabin", "deckhand",
      "marine", "pilot", "runway", "ship", "steward", "tug", "vessel"},
  retail |-> {"boutique", "cashier", "category", "counter", "customer",
      "department", "mall", "merchandising", "outlet", "pos", "retail",
      "sales", "sales assistant", "salesperson", "service", "shop",
      "shop assistant", "showroom", "store"},
  hospitality |-> {"banquet", "butler", "concierge", "front office", "guest",
      "guest relations", "hotel", "housekeeping", "linen", "lodging",
      "resort", "room", "steward"},
  travel |-> {"attraction", "booking", "cruise", "guest services", "hotel",
      "itinerary", "resort", "ticketing", "tour", "tourism", "tourist",
      "travel", "visa"},
  fnb |-> {"baker", "barista", "bartender", "cafe", "catering", "chef",
      "cook", "kitchen", "menu", "pastry", "restaurant", "stewarding"},
  ict |-> {"agile", "ai", "api", "application", "architect", "backend",
      "cloud", "cyber", "data", "database", "developer", "devops",
      "frontend", "fullstack", "infrastructure", "ml", "network",
      "product manager", "programmer", "qa", "scrum", "security", "server",
      "software", "system", "telecom", "testing", "ui", "ux"},
  arts_media |-> {"animation", "artist", "broadcast", "choir", "content",
      "copywriter", "curator", "designer", "editor", "film", "gallery",
      "graphic", "journalist", "multimedia", "museum", "orchestra",
      "photography", "pr", "printing", "radio", "reporter", "television"},
  engineering |-> {"biomedical", "calibration", "chemical", "civil",
      "commissioning", "design", "electrical", "electronics", "engineer",
      "environmental", "industrial", "maintenance", "mechanical", "process",
      "production", "quality", "workshop"},
  finance |-> {"accountant", "accounting", "accounts", "actuarial", "audit",
      "auditor", "bank", "banking", "compliance", "credit", "fund",
      "insurance", "insurer", "ledger", "loan", "payroll", "portfolio",
      "risk", "tax", "treasury", "underwriting", "valuation"},
  legal |-> {"advocate", "counsel", "court", "law", "lawyer", "legal",
      "litigation", "paralegal", "regulatory", "solicitor"},
  public_admin |-> {"board", "civil service", "customs", "government",
      "immigration", "licensing", "ministry", "planning", "policy",
      "public service", "regulatory", "statutory"},
  education |-> {"classroom", "curriculum", "lecturer", "polytechnic",
      "preschool", "school", "student", "syllabus", "teacher", "teaching",
      "trainer", "tutor", "university"},
  healthcare |-> {"allied health", "clinic", "dentist", "diagnostic",
      "doctor", "hospital", "laboratory", "medical", "nursing", "paramedic",
      "patient", "pharmacy", "physician", "radiography", "rehabilitation",
      "surgeon", "therapist", "ward"},
  social |-> {"casework", "community", "counselling", "counsellor", "family",
      "outreach", "social", "volunteer", "welfare", "youth"},
  cleaning |-> {"cleaner", "cleaning", "conservancy", "dishwasher",
      "disinfection", "janitor", "landscape", "mopping", "premises",
      "sanitation", "sweeping"},
  security |-> {"auxiliary", "cctv", "command centre", "fire rescue",
      "guard", "incident", "investigator", "lifeguard", "patrol", "police",
      "prison", "security"},
  agri |-> {"agriculture", "aquaculture", "farm", "gardener", "horticulture",
      "landscape", "livestock", "nursery", "poultry", "tree"},
  beauty |-> {"barber", "beautician", "cosmetology", "hairdresser", "makeup",
      "manicurist", "massage", "pedicurist", "spa", "therapist"},
  waste_env |-> {"collection", "environmental", "grease", "hygiene",
      "material recovery", "recycling", "sanitarian", "waste"},
  arch_design |-> {"architect", "architecture", "bim", "cad", "drafter",
      "draughtsman", "draughtsperson", "interior", "landscape architect",
      "planner", "planning", "product design", "survey", "surveyor", "town",
      "urban"},
  electrical |-> {"cable pulling", "conduit", "electrical", "electrician",
      "switchboard", "testing and commissioning", "wiring"},
  fitness_instruction |-> {"coach", "fitness", "gym", "instructor",
      "martial arts", "mentorship", "personal trainer", "pilates", "studio",
      "training", "yoga", "zumba"}]

Sectors == DOMAIN SECTOR_ANCHORS

\* a.replace("_", " ")
ReplaceUnderscores(a) ==
  JoinStr([i \in 1..Len(a) |-> IF Ch(a, i) = "_" THEN " " ELSE Ch(a, i)], 1, Len(a))

\* a_norm for every anchor of a sector: the one-word ones, compared with the
\* tokens, and the others, looked for in the normalised text
AnchorNorms ==
  [s \in Sectors |->
     LET norms == {_normalize(ReplaceUnderscores(a)) : a \in SECTOR_ANCHORS[s]}
         spaced == {a \in norms : \E i \in 1..Len(a) : Ch(a, i) = " "}
     IN  [words |-> norms \ spaced, phrases |-> spaced]]

_sector_cues_from_text(text) ==
  LET toks_set == Range(_tokens(text))
      lower    == _normalize(text)
  IN  {s \in Sectors : \/ AnchorNorms[s].words \cap toks_set # {}
                       \/ \E a \in AnchorNorms[s].phrases : Contains(lower, a)}

\* the multiplier with the overlap taken as a share of the cues of the
\* company (C15_MultiplierMonotonic tells it from the one below)
_get_industry_multiplier_OfCompany(company_industry_description, candidate_rec) ==
  IF company_industry_description \in {None, ""} THEN 100
  ELSE LET company_cues   == _sector_cues_from_text(company_industry_description)
           candidate_cues == candidate_rec.sector_cues
           k == Cardinality(company_cues \cap candidate_cues)
           n == Cardinality(company_cues)
       IN  IF company_cues = {} \/ candidate_cues = {} THEN 100
           ELSE IF 100 * k > 75 * n THEN 140
           ELSE IF 100 * k > 40 * n THEN 120
           ELSE 100

\* the multiplier in hundredths; overlap_ratio > 0.75 is 100 * k > 75 * n
_get_industry_multiplier(company_industry_description, candidate_rec) ==
  IF company_industry_description \in {None, ""} THEN 100
  ELSE LET company_cues   == _sector_cues_from_text(company_industry_description)
           candidate_cues == candidate_rec.sector_cues
           k == Cardinality(company_cues \cap candidate_cues)
           n == Cardinality(candidate_cues)
       IN  IF company_cues = {} \/ candidate_cues = {} THEN 100
           ELSE IF 100 * k > 75 * n THEN 140
           ELSE IF 100 * k > 40 * n THEN 120
           ELSE 100

(***************************************************************************)
(* The functions of the text layer, each called on its own.                *)
(***************************************************************************)
\* the pieces the texts are made of, and the number of pieces of a text
Pieces == {"a", "Z", "1", " ", "\t", "-", "_", ".", "Sr", "works", " 24 "}

MaxPieces == 3

RECURSIVE Joined(_)
Joined(n) ==
  IF n = 0 THEN {""}
  ELSE LET shorter == Joined(n - 1) IN shorter \cup {s \o p : s \in shorter, p \in Pieces}

Texts == Joined(MaxPieces)

\* company industry descriptions, each with the cues of the one before
IndustryDescriptions ==
  {None, "", "Trading", "Hotel", "Hotel, restaurant", "Hotel, restaurant, school",
   "Hotel, restaurant, school & software", "Farm"}

\* the records of candidates, with the sector cues load_definitions gives them
CandidateRecs ==
  {[sector_cues |-> _sector_cues_from_text(t)] :
     t \in {"waiter", "hotel", "restaurant school farm", "hotel restaurant school software farm"}}

TextArgs(f) ==
  CASE f = "_normalize" -> Texts \cup {None}
    [] f = "_tokens" -> Texts \cup {None}
    [] f = "_get_industry_multiplier" ->
         [company_industry_description : IndustryDescriptions, candidate_rec : CandidateRecs]

InitText ==
  /\ NoCascade /\ title_in = None /\ duties_in = None
  /\ title_text = "" /\ duties_text = "" /\ norm_title = ""
  /\ NoPool /\ NoMemo
  /\ fn \in {"_normalize", "_tokens", "_get_industry_multiplier"}
  /\ args \in TextArgs(fn)
  /\ ret = <<>>

Unit == <<futs, results, title_in, duties_in, title_text, duties_text, norm_title>>

Normalize == Pending("_normalize") /\ Return(_normalize(args)) /\ UNCHANGED Unit

Tokens == Pending("_tokens") /\ Return(_tokens(args)) /\ UNCHANGED Unit

IndustryMultiplier ==
  /\ Pending("_get_industry_multiplier")
  /\ Return(_get_industry_multiplier(args.company_industry_description, args.candidate_rec))
  /\ UNCHANGED Unit

NextText == Normalize \/ Tokens \/ IndustryMultiplier

SpecText == InitText /\ [][NextText]_vars

(***************************************************************************)
(* The header of the catalogue.  A frame is what pandas read: the labels   *)
(* of its columns and its rows, each row with one cell for each column.    *)
(* The frames of the model name their examples and description columns by  *)
(* the aliases "examples" and "description" or have none.                  *)
(***************************************************************************)
HEADER_ALIASES_CODE ==
  {"ssoc 2024", "ssoc", "ssoc code", "ssoc2024", "ssoc_2024", "code", "occupation code"}

HEADER_ALIASES_TITLE ==
  {"ssoc 2024 title", "title", "occupation title", "job title", "ssoc title"}

HEADER_ALIASES_EXAMPLES == {"examples of job classified under this code", "examples"}

_norm_cell(x) ==
  IF x = None THEN "" ELSE SubRuns(Lower(Strip(x)), Whitespace, " ")

\* the share of the smaller token set that both have, in hundredths
_tok_overlap(a, b) ==
  LET A == Range(_tokens(a))
      B == Range(_tokens(b))
  IN  IF A = {} \/ B = {} THEN 0
      ELSE (100 * Cardinality(A \cap B))
             \div Max({1, Min({Cardinality(A), Cardinality(B)})})

\* the columns _get_col_by_alias may return, {None} when it returns None.  An
\* alias that is a column label wins, and with several such aliases the
\* order in which the set aliases is iterated decides; otherwise the first
\* label with the best token overlap, if that is 0.6 or more
_get_col_by_alias(columns, aliases) ==
  LET norms == {_norm_cell(columns[i]) : i \in DOMAIN columns}
      First(n) == Min({i \in DOMAIN columns : _norm_cell(columns[i]) = n})
      cols_norm(n) == columns[Max({i \in DOMAIN columns : _norm_cell(columns[i]) = n})]
      sc(n) == Max({_tok_overlap(n, a) : a \in aliases})
      best_sc == Max({sc(n) : n \in norms} \cup {0})
      best == CHOOSE n \in norms :
                sc(n) = best_sc /\ \A o \in norms : sc(o) = best_sc => First(n) <= First(o)
  IN  IF norms \cap aliases # {} THEN {cols_norm(n) : n \in norms \cap aliases}
      ELSE IF best_sc >= 60 THEN {cols_norm(best)}
      ELSE {None}

\* r.get(col, default)
Get(df, r, col, default) ==
  IF \E i \in DOMAIN df.columns : df.columns[i] = col
  THEN r[CHOOSE i \in DOMAIN df.columns : df.columns[i] = col]
  ELSE default

\* the column of the header h of AUX_HEADERS, None for none
AuxCol(df, h) ==
  IF \E i \in DOMAIN df.columns : _norm_cell(df.columns[i]) = h
  THEN df.columns[Min({i \in DOMAIN df.columns : _norm_cell(df.columns[i]) = h})]
  ELSE None

\* the cells load_definitions reads from the rows of the frame
ReadFrame(df, code_col, title_col, example_col) ==
  [i \in DOMAIN df.rows |->
     Row(Get(df, df.rows[i], code_col, ""),
         Get(df, df.rows[i], title_col, ""),
         IF example_col = None \/ AuxCol(df, "examples") = None THEN NaN
         ELSE Get(df, df.rows[i], example_col, ""),
         Get(df, df.rows[i], AuxCol(df, "description"), NaN))]

\* the labels of the columns of the frames, and the most columns of a frame
Labels == {"SSOC 2024", "SSOC  2024 Title", "Occupation", "Name", "ID", "Examples"}

MaxColumns == 3

\* the cells of the rows, column by column: the third row has no code, the
\* fourth a blank title
FrameCells == << <<"75310", "21421", NaN, "13420">>,
                 <<"Tailor/Dressmaker", "Civil engineer", "Craft workers", " ">>,
                 <<"Seamstress; Sewer", NaN, NaN, NaN>>, <<"x", "y", "z", "w">> >>

Frames ==
  {[columns |-> cs, rows |-> [r \in 1..4 |-> [c \in DOMAIN cs |-> FrameCells[c][r]]]] :
     cs \in {c \in UNION {[1..n -> Labels] : n \in 0..MaxColumns} :
               \A i, j \in DOMAIN c : c[i] = c[j] => i = j}}

InitLoad ==
  /\ NoCascade /\ title_in = None /\ duties_in = None
  /\ title_text = "" /\ duties_text = "" /\ norm_title = ""
  /\ NoPool /\ NoMemo
  /\ fn = "load_definitions" /\ args \in Frames /\ ret = <<>>

\* load_definitions from the columns of the frame on: the columns are
\* looked up, every row is read, and the records and the title map returned
LoadDefinitions ==
  /\ Pending("load_definitions")
  /\ \E code_col \in _get_col_by_alias(args.columns, HEADER_ALIASES_CODE),
        title_col \in _get_col_by_alias(args.columns, HEADER_ALIASES_TITLE),
        example_col \in _get_col_by_alias(args.columns, HEADER_ALIASES_EXAMPLES) :
       \E loaded \in {load_definitions(ReadFrame(args, code_col, title_col, example_col))} :
         Return([outcome |-> "returned", code_col |-> code_col, title_col |-> title_col,
                 rows |-> loaded[1], title_to_record_map |-> loaded[2]])
  /\ UNCHANGED Unit

NextLoad == LoadDefinitions

SpecLoad == InitLoad /\ [][NextLoad]_vars

(***************************************************************************)
(* The engineering-discipline modifier and the ranking of the leaves.      *)
(* _score_vs_record_precomputed multiplies what it has computed for a      *)
(* record by discipline_penalty; pre maps the position of a record to the  *)
(* product of the other factors, in hundredths, and the score is then in   *)
(* ten-thousandths.                                                        *)
(***************************************************************************)
_SOFTWARE_SYSTEMS_KEYWORDS ==
  {"system", "systems", "software", "embedded", "network", "database", "cloud",
   "security", "cyber", "application", "it"}

_PHYSICAL_SCIENCES_KEYWORDS ==
  {"materials", "chemical", "civil", "structural", "optical", "mechanical", "mining",
   "petroleum"}

DigitValue(c) == CHOOSE n \in 0..9 : ToString(n) = c

RECURSIVE IntOf(_)
\* int(s) for a str of digits
IntOf(s) ==
  IF Len(s) = 0 THEN 0
  ELSE 10 * IntOf(SubSeq(s, 1, Len(s) - 1)) + DigitValue(Ch(s, Len(s)))

has_software_cues(query_text) == Range(_tokens(query_text)) \cap _SOFTWARE_SYSTEMS_KEYWORDS # {}

has_physical_cues(query_text) == Range(_tokens(query_text)) \cap _PHYSICAL_SCIENCES_KEYWORDS # {}

\* the penalty in hundredths (the codes of the model that int() accepts are
\* the strs of digits)
_engineering_discipline_penalty(candidate_code, query_text) ==
  IF ~IsDigit(candidate_code) THEN 100
  ELSE IF ~(21400 <= IntOf(candidate_code) /\ IntOf(candidate_code) <= 21600) THEN 100
  ELSE IF /\ has_software_cues(query_text) /\ ~has_physical_cues(query_text)
          /\ candidate_code \in {"21492", "21497", "21460", "21451", "21421"} THEN 10
  ELSE IF /\ has_physical_cues(query_text) /\ ~has_software_cues(query_text)
          /\ candidate_code \in {"21526", "21522"} THEN 10
  ELSE 100

\* a catalogue of engineers
SheetEngineers ==
  << Row("21421", "Civil engineer", NaN, "plans roads and bridges"),
     Row("21422", "Structural engineer", NaN, "designs the structures of buildings"),
     Row("21526", "Embedded systems engineer", NaN, "develops firmware for embedded devices") >>

EngineerQueries ==
  { <<"Software Engineer", "develop embedded firmware for IoT devices">>,
    <<"Engineer", "design of structural steel works">>,
    <<"Systems engineer", "software for civil works">> }

PreScores == {0, 30, 60}

RankArgs ==
  [q : EngineerQueries, all_defs : {load_definitions(SheetEngineers)[1]},
   pre : [1..Len(SheetEngineers) -> PreScores]]

InitRank ==
  /\ NoCascade /\ title_in = None /\ duties_in = None
  /\ title_text = "" /\ duties_text = "" /\ norm_title = ""
  /\ NoPool /\ NoMemo
  /\ fn = "rank" /\ args \in RankArgs /\ ret = <<>>

\* the loop that scores the leaves, and the sort: the positions of the
\* leaves by falling score, and the scores
RankLeaves ==
  /\ Pending("rank")
  /\ \E sc \in {[i \in DOMAIN args.all_defs |->
                   args.pre[i] * _engineering_discipline_penalty(args.all_defs[i].code,
                                                                 Sp(args.q[1], args.q[2]))]} :
       Return([sorted |-> SortByScore(FiveDigit(args.all_defs,
                                                [i \in DOMAIN args.all_defs |-> i]), sc),
               sc |-> sc])
  /\ UNCHANGED Unit

NextRank == RankLeaves

SpecRank == InitRank /\ [][NextRank]_vars

(***************************************************************************)
(* The records the scoring loop is run on, for catalogues of more than K   *)
(* records.  Of a record only is_5d is read here; every twentieth record   *)
(* of a catalogue is a 4-digit parent.  The similarity list has the        *)
(* records of non-zero similarity, the last of the catalogue first.        *)
(***************************************************************************)
\* the most records of a catalogue
MaxCatalogue == 170

CatalogueSizes == {0, 1, 2, K - 1, K, K + 1, MaxCatalogue}

Catalogue(n) == [i \in 1..n |-> [is_5d |-> i % 20 # 0]]

SimilarRecords(n, m) == [j \in 1..m |-> n + 1 - j]

\* the size of the catalogue, whether the index was built, the text of the
\* query, and the number of records of non-zero similarity
CostArgs ==
  {a \in [n : CatalogueSizes, built : BOOLEAN, q_text : {"senior tailor", "123"},
          m : CatalogueSizes] : a.m <= a.n}

InitCost ==
  /\ NoCascade /\ NoPool /\ NoMemo
  /\ fn = "cand_iter_5d" /\ args \in CostArgs /\ ret = <<>>

\* cand_iter_5d of best_match_duties_priority: the records the for loop
\* calls the scorer on
CandIter5d ==
  /\ Pending("cand_iter_5d")
  /\ \E all_defs \in {Catalogue(args.n)} :
     \E cand_indices \in {_tfidf_topk_indices(args.q_text, args.built,
                                              SimilarRecords(args.n, args.m))} :
       Return(IF cand_indices.none
              THEN FiveDigit(all_defs, [i \in 1..Len(all_defs) |-> i])
              ELSE FiveDigit(all_defs, cand_indices.idx))
  /\ UNCHANGED <<futs, results, memo>>

NextCost == CandIter5d

SpecCost == InitCost /\ [][NextCost]_vars

(***************************************************************************)
(* The occupation group hint of a job row.                                 *)
(***************************************************************************)
\* _OCC_GROUP_ALIASES, in the order of the dict
_OCC_GROUP_ALIASES ==
  << <<"legislators", "1">>, <<"senior officials", "1">>, <<"managers", "1">>,
     <<"professionals", "2">>,
     <<"associate professionals", "3">>, <<"technicians", "3">>,
     <<"clerical", "4">>, <<"clerical support workers", "4">>,
     <<"service", "5">>, <<"sales", "5">>, <<"service and sales", "5">>,
     <<"agricultural", "6">>, <<"agriculture", "6">>, <<"fishery", "6">>,
     <<"craftsmen", "7">>, <<"related trades", "7">>, <<"craft", "7">>,
     <<"plant", "8">>, <<"machine operators", "8">>, <<"assemblers", "8">>,
     <<"cleaners", "9">>, <<"labourers", "9">>, <<"laborers", "9">>, <<"related workers", "9">>,
     <<"armed forces", "X">>, <<"foreign diplomatic", "X">>, <<"diplomatic", "X">>,
     <<"personnel", "X">> >>

\* re.match(r"^(\d{1,2})\b", t): the group 1 of the match, None for no match
LeadingNumber(t) ==
  LET digit(i) == i <= Len(t) /\ Ch(t, i) \in Digits
      word(i)  == i <= Len(t) /\ Ch(t, i) \in WordChars
  IN  IF digit(1) /\ digit(2) /\ ~word(3) THEN SubSeq(t, 1, 2)
      ELSE IF digit(1) /\ ~word(2) THEN SubSeq(t, 1, 1)
      ELSE None

\* the for loop over _OCC_GROUP_ALIASES.items(): the value of the first key
\* that is in t, None for none
FirstAlias(t) ==
  LET hits == {i \in DOMAIN _OCC_GROUP_ALIASES : Contains(t, _OCC_GROUP_ALIASES[i][1])}
  IN  IF hits = {} THEN None ELSE _OCC_GROUP_ALIASES[Min(hits)][2]

\* _parse_occ_group_hint
_parse_occ_group_hint(s) ==
  IF s = "" THEN None
  ELSE LET t == _normalize(s)
           n == LeadingNumber(t)
       IN  IF t = "" THEN None
           ELSE IF n \in {"1", "2", "3", "4", "5", "6", "7", "8", "9"} THEN n
           ELSE IF n = "10" THEN "X"
           ELSE FirstAlias(t)

\* _group_hint_multiplier, in hundredths
_group_hint_multiplier(cand_code, group_hint) ==
  IF group_hint = None THEN 100
  ELSE IF group_hint = "X" THEN 100
  ELSE IF cand_code = "" \/ ~IsDigit(Prefix(cand_code, 1)) THEN 100
  ELSE IF Ch(cand_code, 1) = group_hint THEN 112
  ELSE 55

\* the hints of the job rows: None for a row without one
GroupHints ==
  { None, "", "   ", "???", "Group", "2. Professionals", "Professionals", "Group 5", "5", "10",
    "10. Armed forces", "Associate professionals", "3. Associate professionals and technicians",
    "Technicians", "Clerical support workers", "Service and sales workers",
    "Craft and related trades workers", "Plant and machine operators and assemblers",
    "Cleaners, labourers and related workers", "Managers", "Foreign diplomatic personnel",
    "Senior officials", "Sales professionals" }

\* the codes of the records that are scored
CandidateCodes == {"12111", "21421", "31001", "52201", "X3000", ""}

InitHint ==
  /\ NoCascade /\ NoPool /\ NoMemo
  /\ fn = "group_hint" /\ args \in [hint : GroupHints, code : CandidateCodes] /\ ret = <<>>

\* group_hint = _parse_occ_group_hint(occ_group_hint_raw or "")
ParseHint ==
  /\ Pending("group_hint")
  /\ Return(_parse_occ_group_hint(OrEmpty(args.hint)))
  /\ UNCHANGED <<futs, results>>

\* grp_mult = _group_hint_multiplier(rec.get("code",""), group_hint)
GroupMultiplier ==
  /\ fn = "group_hint" /\ Len(ret) = 1
  /\ ret' = <<ret[1], _group_hint_multiplier(args.code, ret[1])>>
  /\ UNCHANGED <<fn, args, cascade, memo, futs, results>>

NextHint == ParseHint \/ GroupMultiplier

SpecHint == InitHint /\ [][NextHint]_vars

(***************************************************************************)
(* The managers of one industry.                                           *)
(***************************************************************************)
_HOSPITALITY_CUES ==
  Cat(<<WB, Alt(<<S("hotel"), S("resort"), S("guest"), S("housekeeping"), S("butler"), S("steward"), S("banquet"), S("front office"), S("concierge"), S("lodging")>>), WB>>)

_SPORTS_CUES ==
  Cat(<<WB, Alt(<<Cat(<<S("sport"), Opt(S("s"))>>), S("stadium"), S("arena"), S("gym"), S("fitness"), S("leisure"), S("recreation"), S("club")>>), WB>>)

_WELLNESS_CUES ==
  Cat(<<WB, Alt(<<S("wellness"), S("spa"), S("fitness"), S("health"), S("therapy"), S("recreation")>>), WB>>)

\* the keys of _SPECIFIC_INDUSTRY_MANAGER_CODES, each with its title
_SPECIFIC_INDUSTRY_MANAGER_CODES ==
  [c \in {"13210", "14121", "14201", "14310", "14323", "14329", "14324"} |->
     CASE c = "13210" -> "Manufacturing manager"
       [] c = "14121" -> "Restaurant manager"
       [] c = "14201" -> "Hotel manager"
       [] c = "14310" -> "Sports centre manager"
       [] c = "14323" -> "Discotheque/Karaoke/Nightclub manager"
       [] c = "14329" -> "Recreation centre manager n.e.c."
       [] c = "14324" -> "Wellness centre manager"]

_mfg_cues_for_penalty(q_norm) ==
  \E cue \in {"manufactur", "production", "factory", "plant", "line"} : Contains(q_norm, cue)

_fnb_cues_for_penalty(q_norm) ==
  \E cue \in {"restaurant", "f&b", "food", "beverage", "kitchen", "cafe"} : Contains(q_norm, cue)

\* _specific_manager_penalty, in hundredths
_specific_manager_penalty(candidate_code, query_text) ==
  LET q_norm == _normalize(query_text)
  IN  IF candidate_code \notin DOMAIN _SPECIFIC_INDUSTRY_MANAGER_CODES THEN 100
      ELSE IF candidate_code = "13211" /\ ~_mfg_cues_for_penalty(q_norm) THEN 10
      ELSE IF candidate_code = "14121" /\ ~_fnb_cues_for_penalty(q_norm) THEN 10
      ELSE IF candidate_code = "14201" /\ ~ReSearch(_HOSPITALITY_CUES, q_norm) THEN 10
      ELSE IF candidate_code = "14310" /\ ~ReSearch(_SPORTS_CUES, q_norm) THEN 10
      ELSE IF /\ candidate_code \in {"14323", "14329", "14324"}
              /\ ~(\/ ReSearch(_HOSPITALITY_CUES, q_norm)
                   \/ ReSearch(_SPORTS_CUES, q_norm)
                   \/ ReSearch(_WELLNESS_CUES, q_norm)) THEN 10
      ELSE 100

\* the codes of the records that are scored: the seven of the table, and
\* four that are not in it
ManagerCodes ==
  DOMAIN _SPECIFIC_INDUSTRY_MANAGER_CODES \cup {"13211", "12111", "1412", ""}

\* the titles and the duties of the queries
ManagerQueries ==
  { <<"Manager", "oversee staff">>, <<"Manager", "factory production line">>,
    <<"Manager", "restaurant kitchen">>, <<"Manager", "hotel guests">>,
    <<"Manager", "sports gym">>, <<"Manager", "spa wellness">>,
    <<"Manager", "explant clubhouse">>, <<"Club manager", "">>,
    <<"Operations Manager", "manufacturing of semiconductors">> }

InitPenalty ==
  /\ NoCascade /\ NoPool /\ NoMemo
  /\ fn = "_specific_manager_penalty"
  /\ args \in [code : ManagerCodes, q : ManagerQueries] /\ ret = <<>>

\* spec_man_penalty = _specific_manager_penalty(rec.get("code", ""),
\*                                              q_title + " " + q_duties)
SpecificManagerPenalty ==
  /\ Pending("_specific_manager_penalty")
  /\ Return(_specific_manager_penalty(args.code, Sp(args.q[1], args.q[2])))
  /\ UNCHANGED <<futs, results>>

NextPenalty == SpecificManagerPenalty

SpecPenalty == InitPenalty /\ [][NextPenalty]_vars

(***************************************************************************)
(* best_match_duties_priority as a function of its arguments, of the       *)
(* scorer and of the similarity list, on a catalogue of six leaves.        *)
(***************************************************************************)
\* the stages before the scoring engine: what is returned, NoResult when
\* no stage returns
BeforeScoring(t, d, all_defs, tm, em) ==
  LET duties == Strip(OrEmpty(d))
      title  == Strip(OrEmpty(t))
      b      == _apply_baked_rules(title, duties)
      m      == _validate_expert_match(title, duties, em, all_defs)
      i      == ExactTitleRecord(tm, all_defs, _normalize(title))
      xhit   == _xcode_checker(duties, title)
  IN  IF b.hit THEN RuleResult(b)
      ELSE IF m.hit THEN ExpertResult(m)
      ELSE IF i # 0
      THEN Result(all_defs[i].code, all_defs[i].title, FULL_SCORE,
                  "Exact Title Match", <<>>, "Exact Title Match")
      ELSE IF xhit.hit /\ xhit.code \in {"X3000", "X4000", "X5000"}
      THEN Result(xhit.code, xhit.title, FULL_SCORE, "xcode-direct", <<>>, "X-Code")
      ELSE IF duties = "" /\ title = ""
      THEN Result("X2000", X_TITLE_MAP["X2000"], FULL_SCORE, "xcode-noinfo", <<>>, "No Input")
      ELSE NoResult

\* the scoring engine for the query, after the stages before it
Scoring(t, d, all_defs, threshold, built, sims, sc) ==
  ScoringEngine(all_defs,
                _tfidf_topk_indices(Strip(Sp(Strip(OrEmpty(t)), Strip(OrEmpty(d)))), built, sims),
                sc, threshold)

\* a catalogue of trades: six leaves, and a 4-digit parent among them
SheetTrades ==
  << Row("75121", "Baker", NaN, "bakes bread"),
     Row("75111", "Butcher", NaN, "cuts meat"),
     Row("7512", "Bakers and confectioners", NaN, NaN),
     Row("51411", "Barber", NaN, "cuts hair"),
     Row("52421", "Florist", NaN, "arranges flowers"),
     Row("71250", "Glazier", NaN, "fits glass"),
     Row("73141", "Potter", NaN, "shapes clay") >>

\* queries for every way best_match_duties_priority returns
MatchQueries ==
  { <<"Electrician", "wiring and switchboard installation">>,
    <<"Finance Director", "P&L, forecasting, budgeting">>,
    <<"Baker", "">>, <<"Ambassador", "">>, <<"", "">>,
    <<"Helper", "odd jobs">>, <<"Weaver", "looms">> }

\* no similar record, or three of them: two leaves around the parent
MatchSims == {<<>>, <<4, 3, 2>>}

MatchArgs ==
  [q : MatchQueries, book : ExpertBooks, sims : MatchSims,
   sc : [1..Len(SheetTrades) -> {DEFAULT_MIN_SCORE, FULL_SCORE}],
   threshold : {DEFAULT_MIN_SCORE, FULL_SCORE}]

InitMatch ==
  /\ NoCascade /\ NoPool /\ NoMemo
  /\ fn = "best_match_duties_priority" /\ args \in MatchArgs /\ ret = <<>>

\* the catalogue and the title lookup that main() loaded
TradesLoaded == load_definitions(SheetTrades)

\* what the stages before the scoring engine return for the queries
EarlyResults ==
  [q \in MatchQueries, book \in ExpertBooks |->
     BeforeScoring(q[1], q[2], TradesLoaded[1], TradesLoaded[2], load_expert_map(book))]

MatchOne ==
  /\ Pending("best_match_duties_priority")
  /\ \E early \in {EarlyResults[args.q, args.book]} :
       Return(IF early # NoResult THEN early
              ELSE Scoring(args.q[1], args.q[2], TradesLoaded[1], args.threshold,
                           TRUE, args.sims, args.sc))
  /\ UNCHANGED <<futs, results>>

NextMatch == MatchOne

SpecMatch == InitMatch /\ [][NextMatch]_vars
(***************************************************************************)
(* Properties.                                                             *)
(***************************************************************************)
TypeOK ==
  /\ pc \in {"idle", "rules", "expert", "title", "xcode", "score", "fallback", "guard", "return",
            "raised"}
  /\ min_s \in 0..100
  /\ best_s \in {-1} \cup ScoreValues

\* best_match_duties_priority has returned
Returned == pc = "return"

\* the call is under way
InCall == pc \in {"rules", "expert", "title", "xcode", "score", "fallback", "guard"}

\* the result came from the scoring engine
Statistical == result.explain \in {SCORER_EXPLAIN, "xcode-no-match-found"}

\* a code of five digits
IsLeafCode(c) == IsDigit(c) /\ Len(c) = 5

\* the place of a stage in the order of the cascade
Rank(stage) ==
  CASE stage = "rules" -> 1 [] stage = "expert" -> 2 [] stage = "title" -> 3
    [] stage = "xcode" -> 4 [] stage = "score" -> 5 [] stage = "fallback" -> 6
    [] stage = "guard" -> 7 [] stage = "return" -> 8 [] OTHER -> 0

\* what the stage the call is at relies on when it subscripts a dict or a
\* list, unpacks a tuple or calls a str method: with it the stage cannot raise
StageDefined ==
  /\ title_text # None /\ duties_text # None
  /\ pc = "expert" /\ norm_title \in DOMAIN expert_map => Len(expert_map[norm_title]) = 2
  /\ pc = "title" /\ norm_title \in DOMAIN title_map => title_map[norm_title] \in 1..Len(defs)
  /\ pc = "xcode" => {"X2000", "X3000", "X4000", "X5000"} \subseteq DOMAIN X_TITLE_MAP
  /\ pc = "score" => "X1000" \in DOMAIN X_TITLE_MAP
  /\ pc = "fallback" => Len(top_5) > 0 /\ best_s >= 0 /\ final.code # None
  /\ pc = "guard" => final.code # None /\ "X1000" \in DOMAIN X_TITLE_MAP

\* C1: totality.  For every catalogue (the empty one too), expert map,
\* threshold, with or without the TF-IDF index, and every query of strs or
\* None: at every stage of a call the operations that could raise are
\* defined, every step of a call moves it to a later stage (so it ends), and
\* what is returned has a code that is a str, not None.
C1_Totality ==
  /\ [](pc = "raised" => title_in \in NotStr \ {None} \/ duties_in \in NotStr \ {None})
  /\ [](InCall => StageDefined)
  /\ [][InCall => Rank(pc') > Rank(pc)]_vars
  /\ [](Returned => result.code # None /\ Len(result.code) > 0)

\* a call on the empty catalogue with the TF-IDF index built and a None duties
\* cell has returned from the scoring engine
C1_Witness ==
  /\ Returned /\ Len(defs) = 0 /\ tfidf_built /\ title_in # None /\ duties_in = None
  /\ Statistical /\ result.code = "X1000"

\* no candidate clears the threshold: no leaf was scored, or the best leaf
\* score is below the threshold and no scored parent of a top-5 leaf is at or
\* above it
NoneClears ==
  \/ Len(top_5) = 0
  \/ /\ best_s < min_s
     /\ \A i \in DOMAIN scores :
          (\E j \in 1..Len(top_5) : defs[i].code = Prefix(top_5[j].code, 4)) => scores[i] < min_s

ValidOverride == _validate_expert_match(title_text, duties_text, expert_map, defs)

\* the normalised title is a key of the expert map
OverrideHit == norm_title \in DOMAIN expert_map

\* C3 as the specification has it: an expert-map entry that passes validation
\* is returned with confidence 1.0, whether or not a baked-in rule matches.
C3_OverrideFirst ==
  Returned /\ OverrideHit /\ ValidOverride.hit
    => result.code = expert_map[norm_title][1] /\ result.score = FULL_SCORE

\* C3: cascade precedence.  The baked-in rules are tried before the expert
\* map: a stage is entered only from the stage before it, and when the
\* normalised title is a key of the expert map whose entry passes validation,
\* the result is the rule's code with confidence 0.66 if a baked-in rule
\* matches the query, and the entry's code with confidence 1.0 only if none
\* does.
C3_RulesFirst ==
  /\ [][pc' = "expert" => pc = "rules" /\ ~br'.hit]_vars
  /\ [](Returned /\ OverrideHit /\ ValidOverride.hit =>
          IF br.hit
          THEN result.code = br.code /\ result.score = RULE_SCORE
          ELSE result.code = expert_map[norm_title][1] /\ result.score = FULL_SCORE)

\* a rule and a valid expert-map entry for the same query: the rule is returned
C3_Witness ==
  /\ Returned /\ OverrideHit /\ ValidOverride.hit /\ br.hit
  /\ result.code = br.code /\ result.search_type = "Baked-in Rule"

\* the position of the electrician rule in the list
ElectricianRule == CHOOSE i \in 1..Len(_BAKED_RULES) : _BAKED_RULES[i].reason = "rule_electrician"

\* C4: whenever a baked-in rule fires, the result has the rule's code and
\* title, confidence 0.66, the label "Baked-in Rule" and an empty top 5, and
\* the scorer was called on no record; the query "Electrician" / "wiring and
\* switchboard installation" is resolved by the electrician rule, and no rule
\* declared before it fires for it.
C4_RuleResult ==
  /\ Returned /\ br.hit =>
       /\ result.code = br.code /\ result.title = br.occ_title
       /\ result.score = RULE_SCORE /\ result.search_type = "Baked-in Rule"
       /\ result.top_5 = <<>> /\ DOMAIN scores = {}
  /\ Returned /\ title_in = "Electrician" /\ duties_in = "wiring and switchboard installation" =>
       /\ br.hit /\ br.reason = "rule_electrician" /\ result.code = "74110"
       /\ \A i \in 1..(ElectricianRule - 1) :
            ~RuleFires(_BAKED_RULES[i], norm_title, BothNorm(title_text, duties_text))

\* the electrician query has been resolved by the electrician rule
C4_Witness ==
  /\ Returned /\ title_in = "Electrician" /\ duties_in = "wiring and switchboard installation"
  /\ result.explain = "rule_electrician" /\ result.score = RULE_SCORE


(***************************************************************************)
(* The rule list, read apart from the loop that scans it.                  *)
(***************************************************************************)
\* the rule stage of the call has just been left
RulesJustRun == pc = "expert" \/ (Returned /\ br.hit)

\* the combined normalised text of the call
BothOfCall == BothNorm(title_text, duties_text)

\* the primary pattern of rule i matches its target text, and its
\* required-context pattern, if it has one, matches the combined text
PatternAndCue(i, both) ==
  /\ ReSearch(_BAKED_RULES[i].rx,
              IF _BAKED_RULES[i].title_only_check THEN norm_title ELSE both)
  /\ _BAKED_RULES[i].cue = <<>> \/ ReSearch(_BAKED_RULES[i].cue[1], both)

\* rule i is satisfied: pattern and context match and, for a rule whose
\* reason names rule_admin_exec, the combined text has "exec" in it
Satisfied(i, both) ==
  /\ PatternAndCue(i, both)
  /\ Contains(_BAKED_RULES[i].reason, "rule_admin_exec") => Contains(both, "exec")

\* the reasons of the compound rules
CompoundReasons ==
  {"rule_supervisor_construction", "rule_manager_construction",
   "rule_engineer_drawings_construction",
   "rule_painter_vehicle_context", "rule_painter_building_default"}

\* br is the rule at position i of the list
IsListRule(i) ==
  br = RuleHit(_BAKED_RULES[i].code, _BAKED_RULES[i].occ_title, _BAKED_RULES[i].reason)

\* br is what the list gives when the rules at the positions M are the ones
\* that count as matching: the earliest of them, or else a compound rule or
\* nothing
EarliestOf(M) ==
  IF M # {} THEN IsListRule(Min(M))
  ELSE ~br.hit \/ br.reason \in CompoundReasons

\* C5 as the specification has it: the rule returned is the earliest of the
\* list whose primary pattern matches its target text and whose
\* required-context pattern, if any, matches the combined text; a compound
\* rule is returned only when no rule of the list matches so.
C5_EarliestPatternAndCue ==
  RulesJustRun =>
    EarliestOf({i \in 1..Len(_BAKED_RULES) : PatternAndCue(i, BothOfCall)})

\* C5: rule order.  The rule returned is the earliest of the list that is
\* satisfied, where a rule named rule_admin_exec is satisfied only if, besides
\* its pattern and context, the combined text contains "exec"; of two
\* satisfied rules the earlier wins, and a compound rule is returned only
\* when no rule of the list is satisfied.
C5_EarliestSatisfied ==
  RulesJustRun =>
    EarliestOf({i \in 1..Len(_BAKED_RULES) : Satisfied(i, BothOfCall)})

\* a text that satisfies two rules of the list, the first of them a
\* rule_admin_exec rule, has been resolved by the earlier of the two
C5_Witness ==
  /\ Returned /\ br.hit /\ title_in = "admin exec"
  /\ \E M \in {{i \in 1..Len(_BAKED_RULES) : Satisfied(i, BothOfCall)}} :
       /\ Cardinality(M) >= 2
       /\ IsListRule(Min(M))
       /\ Contains(br.reason, "rule_admin_exec")

\* a compound rule returned after the whole list was scanned
C5_CompoundReached ==
  /\ Returned /\ br.reason \in CompoundReasons
  /\ \A i \in 1..Len(_BAKED_RULES) : ~Satisfied(i, BothOfCall)

\* C6: an exact title match has confidence 1.0, an empty top 5, and the code
\* of a catalogue record that is a 5-digit leaf and has the normalised title
\* of the query among its title variations.
C6_ExactTitle ==
  Returned /\ result.search_type = "Exact Title Match" =>
    /\ result.score = FULL_SCORE /\ result.top_5 = <<>>
    /\ IsLeafCode(result.code)
    /\ \E i \in 1..Len(defs) :
         /\ defs[i].code = result.code /\ defs[i].title = result.title
         /\ norm_title \in defs[i].all_title_variations \cup {defs[i].title_norm}

\* a title that is an alternative title of a leaf record is resolved to it
C6_Witness ==
  /\ Returned /\ result.search_type = "Exact Title Match"
  /\ title_in = "Sewer" /\ result.code = "75310"
  /\ norm_title \in defs[title_map[norm_title]].all_title_variations

\* C7: a query whose title and duties are both empty or blank gets the code
\* X2000 with confidence 1.0, whatever the catalogue and the expert map.
C7_EmptyIsNoInfo ==
  Returned /\ title_text = "" /\ duties_text = "" =>
    result.code = "X2000" /\ result.score = FULL_SCORE

\* C8: every code returned is a 5-digit leaf code or a reserved X-code.
C8_LeafOrXCode ==
  Returned => IsLeafCode(result.code) \/ result.code \in DOMAIN X_TITLE_MAP

(***************************************************************************)
(* The expert map, read apart from _validate_expert_match.                 *)
(***************************************************************************)
\* the expert stage of the call has just been left
ExpertJustRun == pc = "title" \/ (Returned /\ expert_match.hit)

\* the code the expert map has for the normalised title
OverrideCode == expert_map[norm_title][1]

\* the tokens of the title and duties of the call that are not in generic
QueryResidual(generic) == Range(_tokens(Sp(title_text, duties_text))) \ generic

\* the tokens of the description of the first record with the code that are
\* not in generic
CandidateResidual(code, generic) ==
  Range(_tokens(defs[FirstWithCode(defs, code)].search_text)) \ generic

\* the query and the record of the code share a token that is in neither
\* generic vocabulary
SharesResidual(code) ==
  QueryResidual(_SUPERVISORY_TOKENS \cup _GENERIC_ENGINEERING_TOKENS)
    \cap CandidateResidual(code, _SUPERVISORY_TOKENS \cup _GENERIC_ENGINEERING_TOKENS) # {}

\* the expert map has "finance director", its code is in the catalogue, and
\* the call has the title "Finance Director" with one of the two duties
FinanceDirectorCall ==
  /\ title_in = "Finance Director" /\ OverrideHit
  /\ duties_in \in {"P&L, forecasting, budgeting",
                    "manages the factory floor and machine operators"}
  /\ FirstWithCode(defs, OverrideCode) # 0

\* the result is the expert-map entry of the normalised title
ResolvedByOverride ==
  /\ result.code = OverrideCode /\ result.title = expert_map[norm_title][2]
  /\ result.score = FULL_SCORE /\ result.search_type = "Expert Map Match"

\* C9 as the specification has it: with "finance director" in the expert map,
\* the title with duties that share residual tokens with the description of
\* the code is resolved by the entry with confidence 1.0, and with duties that
\* share none the entry is rejected and the call goes on to the next stage.
C9_ContradictedRejected ==
  /\ Returned /\ FinanceDirectorCall /\ SharesResidual(OverrideCode) => ResolvedByOverride
  /\ ExpertJustRun /\ FinanceDirectorCall /\ ~SharesResidual(OverrideCode) =>
       ~expert_match.hit /\ pc = "title"

\* C9: with "finance director" in the expert map and no baked-in rule
\* matching, the title "Finance Director" is resolved by the entry with
\* confidence 1.0 both with duties that share residual tokens with the
\* description of the code ("P&L, forecasting, budgeting") and with duties
\* that share none ("manages the factory floor and machine operators"): the
\* title has neither "manager" nor "engineer" in it, so the entry is accepted
\* without a look at the duties.
C9_AcceptedWhateverDuties ==
  /\ ExpertJustRun /\ FinanceDirectorCall => expert_match.hit /\ Returned /\ ResolvedByOverride
  /\ Returned /\ FinanceDirectorCall => ~br.hit

\* the factory-floor duties share no residual token with the description of
\* the code, and the call is resolved by the expert-map entry
C9_Witness ==
  /\ Returned /\ FinanceDirectorCall
  /\ duties_in = "manages the factory floor and machine operators"
  /\ ~SharesResidual(OverrideCode) /\ ResolvedByOverride

\* the generic vocabulary the validation removes for the normalised title
GenericFor(t) == IF Contains(t, "manager") THEN _SUPERVISORY_TOKENS ELSE _GENERIC_ENGINEERING_TOKENS

\* the title of the hit contains "manager" or "engineer"
ContextTitle == Contains(norm_title, "manager") \/ Contains(norm_title, "engineer")

\* C10: override validation.  For a hit of the expert map whose title
\* contains "manager" or "engineer" and whose code is in the catalogue, the
\* entry is accepted if and only if the tokens of title + duties and the
\* tokens of the description of the code, after the generic supervisory
\* vocabulary ("manager" titles) or the generic engineering vocabulary (the
\* other "engineer" titles) is removed from both, have a token in common; a
\* hit whose title contains neither word is always accepted.
C10_OverrideValidation ==
  ExpertJustRun /\ OverrideHit =>
    /\ ContextTitle /\ FirstWithCode(defs, OverrideCode) # 0 =>
         (expert_match.hit <=>
            QueryResidual(GenericFor(norm_title))
              \cap CandidateResidual(OverrideCode, GenericFor(norm_title)) # {})
    /\ ~ContextTitle => expert_match.hit
    /\ expert_match.hit => expert_match.code = OverrideCode

\* a "manager" hit whose duties share only generic vocabulary with the
\* description of the code has been rejected
C10_Witness ==
  /\ pc = "title" /\ OverrideHit /\ ~expert_match.hit
  /\ title_in = "Treasury Manager" /\ duties_in = "oversee vault staff"
  /\ FirstWithCode(defs, OverrideCode) # 0
  /\ Range(_tokens(Sp(title_text, duties_text)))
       \cap Range(_tokens(defs[FirstWithCode(defs, OverrideCode)].search_text)) # {}

(***************************************************************************)
(* Arguments that are not strs.                                            *)
(***************************************************************************)
\* the argument v as a str, the empty one for whatever is not a str
AsEmpty(v) == IF v \in NotStr THEN "" ELSE v

\* C11: a title or duties argument that is not a str (None, a number) is
\* treated as the empty str: the call does not raise, and it works on the
\* texts it would have with "" in the place of the value.
C11_NotStrAsEmpty ==
  title_in \in NotStr \/ duties_in \in NotStr =>
    /\ pc # "raised"
    /\ pc # "idle" =>
         title_text = Strip(AsEmpty(title_in)) /\ duties_text = Strip(AsEmpty(duties_in))

(***************************************************************************)
(* The shortlist.                                                          *)
(***************************************************************************)
\* C12: shortlisting does not change the outcome.  For the same catalogue,
\* query, scorer and threshold, the engine returns the same code, confidence
\* and strategy label with the TF-IDF index (only the shortlisted records are
\* scored) as without it (every leaf is scored).
C12_ShortlistInvisible ==
  fn = "scoring_engine" /\ ret # <<>> =>
    /\ ret[1].indexed.code = ret[1].unindexed.code
    /\ ret[1].indexed.score = ret[1].unindexed.score
    /\ ret[1].indexed.search_type = ret[1].unindexed.search_type

(***************************************************************************)
(* The rows of a file under threads.                                       *)
(***************************************************************************)
\* what the loop without threads hands to the write-back for row i
SingleThreaded(i) ==
  Guarded(RowOutcomes[args.rows[i]].code, RowOutcomes[args.rows[i]].title,
          RowOutcomes[args.rows[i]].score, ClampMinScore(args.min_score))

\* C13: result order under threads.  Whatever the order in which the rows
\* are completed, there is one code and title for each row of the file, and
\* the i-th handed to the write-back is that of the i-th row: what the loop
\* without threads gives for it.
C13_OrderPreserved ==
  fn = "process_single_file" /\ ret # <<>> =>
    /\ Len(ret[1]) = Len(args.rows)
    /\ \A i \in 1..Len(args.rows) : ret[1][i] = SingleThreaded(i)

\* two rows of different codes were completed in the opposite order, and the
\* rows are written
C13_Witness ==
  /\ fn = "process_single_file" /\ ret # <<>> /\ args.threads > 1
  /\ \E i, j \in DOMAIN futs :
       /\ i < j /\ futs[i].yielded > futs[j].yielded
       /\ ret[1][i][1] # ret[1][j][1]

\* what a call computes alone, on empty caches
Alone == [t \in CacheTexts |-> [_normalize |-> _normalize(t), _tokens |-> _tokens(t)]]

CompanyCues == [d \in IndustryDescriptions \ {None} |-> _sector_cues_from_text(d)]

CuesOf(d) == IF d = None THEN {} ELSE CompanyCues[d]

\* C15: the industry multiplier is 1.0, 1.20 or 1.40: 1.0 without a
\* description or without a shared cue (and for a share of 0.40 or less),
\* and for the same candidate never lower for a description that has the
\* cues of another one and more
C15_MultiplierMonotonic ==
  fn = "_get_industry_multiplier" /\ ret # <<>> =>
    /\ ret[1] \in {100, 120, 140}
    /\ args.company_industry_description \in {None, ""} => ret[1] = 100
    /\ CuesOf(args.company_industry_description) \cap args.candidate_rec.sector_cues = {}
         => ret[1] = 100
    /\ \A d \in IndustryDescriptions :
         CuesOf(args.company_industry_description) \subseteq CuesOf(d)
           => ret[1] <= _get_industry_multiplier(d, args.candidate_rec)

\* a description with a moderate overlap returned 1.20, and a description
\* with its cues and more gets 1.40 for the same candidate
C15_Witness ==
  /\ fn = "_get_industry_multiplier" /\ ret = <<120>>
  /\ \E d \in IndustryDescriptions :
       /\ CuesOf(args.company_industry_description) \subseteq CuesOf(d)
       /\ CuesOf(args.company_industry_description) # CuesOf(d)
       /\ _get_industry_multiplier(d, args.candidate_rec) = 140

\* C16: _normalize is idempotent: normalising what it returned returns it
C16_NormalizeIdempotent ==
  fn = "_normalize" /\ ret # <<>> => _normalize(ret[1]) = ret[1]

\* a text that _normalize changed into words with a space between them
C16_Witness ==
  /\ fn = "_normalize" /\ ret # <<>> /\ args # None
  /\ ret[1] # args /\ Len(Words(ret[1])) > 1
  /\ \E i \in 1..Len(args) : Ch(args, i) \in UpperLetters
  /\ \E i \in 1..Len(args) : Ch(args, i) \in Separators \cup {"."}

\* C17: no token of _tokens is a stopword of _STOP, none is made of digits only
C17_NoStopNoDigits ==
  fn = "_tokens" /\ ret # <<>> =>
    \A i \in DOMAIN ret[1] : ret[1][i] \notin _STOP /\ ~IsDigit(ret[1][i])

\* tokens came out of a text that had a stopword and a digit among its words
C17_Witness ==
  /\ fn = "_tokens" /\ ret # <<>> /\ args # None /\ ret[1] # <<>>
  /\ \E i \in 1..Len(args) : Ch(args, i) \in Digits
  /\ \E w \in Range(Words(_normalize(args))) : w \in _STOP

\* C18: when the code column or the title column of the catalogue is not
\* found, load_definitions raises and returns no records
C18_MissingColumnFatal ==
  fn = "load_definitions" /\ ret # <<>>
    /\ (ret[1].code_col = None \/ ret[1].title_col = None)
    => ret[1].outcome = "raised"

\* the place of the record at position i in the sorted list
Place(sorted, i) == CHOOSE r \in DOMAIN sorted : sorted[r] = i

\* the leaves of embedded-systems and computer engineers, and those of civil
\* and structural engineers
SystemsLeaves == {"21526", "21522"}

CivilStructuralLeaves == {"21421", "21422"}

\* C19: for a query with a software keyword and no physical-science keyword,
\* a systems leaf is ranked above every civil or structural leaf whose score
\* before the discipline modifier is not higher
C19_SystemsAboveCivil ==
  fn = "rank" /\ ret # <<>>
    /\ has_software_cues(Sp(args.q[1], args.q[2])) /\ ~has_physical_cues(Sp(args.q[1], args.q[2]))
    => \A i, j \in DOMAIN args.all_defs :
         /\ args.all_defs[i].code \in SystemsLeaves
         /\ args.all_defs[j].code \in CivilStructuralLeaves
         /\ args.pre[j] <= args.pre[i]
         => Place(ret[1].sorted, i) < Place(ret[1].sorted, j)

\* the positions of the entries whose code is the first four characters of
\* the code of a leaf of top_5
ParentsOfTop5 ==
  {i \in DOMAIN defs : \E j \in DOMAIN top_5 :
     top_5[j].code # "" /\ defs[i].code = Prefix(top_5[j].code, 4)}

\* C20: parents are scored only when the best leaf is below the threshold;
\* then, if a parent of a top-5 leaf reaches the threshold, the result is the
\* best of these parents, labelled "4-Digit Fallback"; a best leaf at or
\* above the threshold is returned as it is
C20_ParentFallback ==
  pc \in {"guard", "return"} =>
    /\ (\E i \in DOMAIN scores : ~defs[i].is_5d) => best_s < min_s
    /\ best_s >= 0 /\ best_s < min_s /\ (\E p \in ParentsOfTop5 : scores[p] >= min_s) =>
         /\ final.search_type = "4-Digit Fallback"
         /\ \E p \in ParentsOfTop5 :
              /\ final.code = defs[p].code /\ final.title = defs[p].title
              /\ final.score = scores[p]
              /\ \A o \in ParentsOfTop5 : scores[o] <= scores[p]
         /\ pc = "return" =>
              /\ result.code = final.code /\ result.title = final.title
              /\ result.score = final.score /\ result.search_type = "4-Digit Fallback"
    /\ best_s >= min_s =>
         /\ final.search_type = "Title + Duties (Combined)"
         /\ final.score = best_s
         /\ \E i \in DOMAIN scores :
              defs[i].is_5d /\ scores[i] = best_s /\ final.code = defs[i].code
         /\ pc = "return" => result.code = final.code /\ result.score = best_s

\* the call returned the better of two parents that reach the threshold, the
\* one that comes later in the catalogue
C20_Witness ==
  /\ pc = "return" /\ result.search_type = "4-Digit Fallback"
  /\ \E p, o \in ParentsOfTop5 :
       /\ o < p /\ scores[o] >= min_s /\ scores[p] > scores[o]
       /\ result.code = defs[p].code

(***************************************************************************)
(* The title lookup, the X-codes and the top 5 of the cascade.             *)
(***************************************************************************)
\* the exact title stage of the call has just been left
TitleJustRun == pc = "xcode" \/ (Returned /\ result.search_type = "Exact Title Match")

\* the leaf records that have the normalised title of the query among the
\* keys they put into the title lookup
LeavesWithTitle == {i \in 1..Len(defs) : defs[i].is_5d /\ norm_title \in TitleKeys(defs[i])}

\* C21: when the exact title stage is reached and a leaf record has the
\* normalised title of the query among its title variations, the stage
\* returns a leaf with confidence 1.0, even if a record that is no leaf, or a
\* record loaded later, has the same variation.
C21_MultiValued ==
  TitleJustRun /\ LeavesWithTitle # {} =>
    /\ Returned /\ result.search_type = "Exact Title Match"
    /\ result.score = FULL_SCORE /\ IsLeafCode(result.code)

\* the stage of the X-codes has just been left
XJustRun == pc = "score" \/ (Returned /\ result.search_type \in {"X-Code", "No Input"})

\* the text the cues are looked for in: the normalised duties and title
CueText == Strip(Sp(_normalize(duties_text), _normalize(title_text)))

\* the reserved code the cues of the query call for, None for no cue
CueCode ==
  IF ReSearch(_SG_ARMED_RX, CueText) THEN "X3000"
  ELSE IF ReSearch(_FOR_ARMED_RX, CueText) THEN "X4000"
  ELSE IF ReSearch(_DIPLO_RX, CueText) THEN "X5000"
  ELSE None

\* C22: when the stage of the X-codes is reached and the normalised text has
\* an armed forces or a diplomatic cue, the call returns the reserved code
\* with confidence 1.0 and no record is scored: X3000 for a cue of the
\* Singapore armed forces, else X4000 for one of foreign armed forces, else
\* X5000 for a diplomatic one.
C22_SpecialCases ==
  XJustRun /\ CueCode # None =>
    /\ Returned /\ result.code = CueCode /\ result.title = X_TITLE_MAP[CueCode]
    /\ result.score = FULL_SCORE /\ result.search_type = "X-Code"
    /\ scores = <<>> /\ result.top_5 = <<>>

\* a query with a cue of the Singapore armed forces and one of foreign armed
\* forces gets X3000
C22_Witness ==
  /\ Returned /\ result.search_type = "X-Code"
  /\ title_in = "Liaison" /\ result.code = "X3000"
  /\ ReSearch(_FOR_ARMED_RX, CueText)

(***************************************************************************)
(* The cost of a query.                                                    *)
(***************************************************************************)
\* the scoring loop has its list of records
Listed == fn = "cand_iter_5d" /\ ret # <<>>

\* the 5-digit records of the catalogue of the call
Leaves == {i \in 1..args.n : Catalogue(args.n)[i].is_5d}

\* _tfidf_topk_indices gives a list for the call
Shortlisted == args.built /\ _normalize(args.q_text) # "" /\ args.m > 0

\* C23 as stated: for every query the scorer is called on at most K leaf
\* records, however many records the catalogue has.
C23_CostBounded == Listed => Len(ret[1]) <= K

\* C23: the scorer is called on at most K leaf records, all of them of
\* non-zero similarity, when the index is built and gives a list for the
\* query; it is called on every leaf of the catalogue when the index is not
\* built, when the query normalises to nothing and when no record is similar.
C23_CostBoundedByShortlist ==
  Listed =>
    IF Shortlisted
    THEN /\ Len(ret[1]) <= K
         /\ Range(ret[1]) \subseteq Leaves \cap Range(SimilarRecords(args.n, args.m))
    ELSE Range(ret[1]) = Leaves /\ Len(ret[1]) = Cardinality(Leaves)

\* more than K records are similar, and the scorer is called on at most K
C23_Witness ==
  /\ Listed /\ Shortlisted /\ args.m > K
  /\ Len(ret[1]) <= K /\ Cardinality(Leaves) > K

(***************************************************************************)
(* The rows of the catalogue.                                              *)
(***************************************************************************)
\* load_definitions has returned and had found the two columns
Loaded ==
  /\ fn = "load_definitions" /\ ret # <<>>
  /\ ret[1].code_col # None /\ ret[1].title_col # None

\* a cell that is empty or blank
Missing(v) == v = NaN \/ Strip(v) = ""

\* the rows of the frame that have a code and a title
CompleteRows ==
  {r \in DOMAIN args.rows :
     /\ ~Missing(Get(args, args.rows[r], ret[1].code_col, ""))
     /\ ~Missing(Get(args, args.rows[r], ret[1].title_col, ""))}

\* C24: load_definitions leaves out every row of the catalogue whose code is
\* missing or whose title is missing, so every record it returns has a code
\* and a title that are not empty.
C24_IncompleteRowsSkipped ==
  Loaded =>
    /\ Len(ret[1].rows) = Cardinality(CompleteRows)
    /\ \A i \in DOMAIN ret[1].rows : ret[1].rows[i].code # "" /\ ret[1].rows[i].title # ""

(***************************************************************************)
(* The occupation group hint.                                              *)
(***************************************************************************)
\* the hint of the call, None read as ""
HintText == OrEmpty(args.hint)

\* the hint has been parsed
HintParsed == fn = "group_hint" /\ Len(ret) >= 1

\* the numbers 1 to 10 that the hint has as a word, "2." read as 2
CarriedNumbers ==
  {n \in {"1", "2", "3", "4", "5", "6", "7", "8", "9", "10"} :
     n \in Range(SplitOn(HintText, Whitespace \cup {"."}))}

GroupOfNumber(n) == IF n = "10" THEN "X" ELSE n

\* the groups _OCC_GROUP_ALIASES gives the name t
GroupsOfName(t) ==
  {_OCC_GROUP_ALIASES[i][2] : i \in {j \in DOMAIN _OCC_GROUP_ALIASES : _OCC_GROUP_ALIASES[j][1] = t}}

\* C25: a hint that has a group number gives that group, X for 10; a hint
\* that is a name of _OCC_GROUP_ALIASES gives the group of that name; an
\* empty hint gives None; and the multiplier is above 1 for a record whose
\* code begins with the digit of the group and below 1 for any other.
C25_HintDenotesGroup ==
  HintParsed =>
    /\ \A n \in CarriedNumbers : ret[1] = GroupOfNumber(n)
    /\ CarriedNumbers = {} => \A g \in GroupsOfName(_normalize(HintText)) : ret[1] = g
    /\ _normalize(HintText) = "" /\ CarriedNumbers = {} => ret[1] = None
    /\ Len(ret) = 2 /\ ret[1] \in Digits /\ IsDigit(Prefix(args.code, 1)) =>
         IF Ch(args.code, 1) = ret[1] THEN ret[2] > 100 ELSE ret[2] < 100

(***************************************************************************)
(* The managers of one industry.                                           *)
(***************************************************************************)
\* the normalised text of the query of the call
PenaltyText == _normalize(Sp(args.q[1], args.q[2]))

\* the text has the cues of the industry of the code c of the table
IndustryCues(c) ==
  CASE c = "13210" -> _mfg_cues_for_penalty(PenaltyText)
    [] c = "14121" -> _fnb_cues_for_penalty(PenaltyText)
    [] c = "14201" -> ReSearch(_HOSPITALITY_CUES, PenaltyText)
    [] c = "14310" -> ReSearch(_SPORTS_CUES, PenaltyText)
    [] OTHER -> \/ ReSearch(_HOSPITALITY_CUES, PenaltyText)
                \/ ReSearch(_SPORTS_CUES, PenaltyText)
                \/ ReSearch(_WELLNESS_CUES, PenaltyText)

\* C26: for a code of _SPECIFIC_INDUSTRY_MANAGER_CODES the penalty is 0.10
\* when the text of the query has none of the cues of the industry and 1.0
\* when it has one; for any other code it is 1.0.
C26_SpecificManagerPenalty ==
  fn = "_specific_manager_penalty" /\ ret # <<>> =>
    ret[1] = IF args.code \notin DOMAIN _SPECIFIC_INDUSTRY_MANAGER_CODES THEN 100
             ELSE IF IndustryCues(args.code) THEN 100 ELSE 10

Matched == fn = "best_match_duties_priority" /\ ret # <<>>

\* the positions of the records the scorer is called on for the query q and
\* the similarity list sims, in the order of the calls
ScoredFor ==
  [q \in MatchQueries, sims \in MatchSims |->
     LET cand_indices == _tfidf_topk_indices(Strip(Sp(Strip(q[1]), Strip(q[2]))), TRUE, sims)
     IN  IF cand_indices.none
         THEN FiveDigit(TradesLoaded[1], [i \in 1..Len(TradesLoaded[1]) |-> i])
         ELSE FiveDigit(TradesLoaded[1], cand_indices.idx)]

ScoredLeaves == ScoredFor[args.q, args.sims]

\* the first of the scored records that has the greatest score
FirstBest ==
  ScoredLeaves[Min({j \in 1..Len(ScoredLeaves) :
                      \A k \in 1..Len(ScoredLeaves) :
                        args.sc[ScoredLeaves[k]] <= args.sc[ScoredLeaves[j]]})]

\* C28: when the scoring engine gave the result, the top 5 has at most 5
\* entries, each a scored leaf with its score, by falling score; its first
\* entry is the best leaf, the first scored of those with the greatest
\* score; and a leaf code returned for "Title + Duties (Combined)" is the
\* code of that first entry.  On every other path the top 5 is empty.
C28_Top5 ==
  Matched =>
    LET r == ret[1]
    IN  IF r.search_type \in {"Baked-in Rule", "Expert Map Match", "Exact Title Match",
                              "X-Code", "No Input"}
        THEN r.top_5 = <<>>
        ELSE /\ Len(r.top_5) <= 5
             /\ \A j \in 1..Len(r.top_5) :
                  \E i \in Range(ScoredLeaves) :
                    r.top_5[j] = Candidate(TradesLoaded[1], i, args.sc)
             /\ \A j \in 1..(Len(r.top_5) - 1) : r.top_5[j].score >= r.top_5[j + 1].score
             /\ Len(ScoredLeaves) > 0 =>
                  /\ Len(r.top_5) > 0
                  /\ r.top_5[1] = Candidate(TradesLoaded[1], FirstBest, args.sc)
             /\ r.search_type = "Title + Duties (Combined)" /\ IsLeafCode(r.code) =>
                  r.code = r.top_5[1].code

\* six leaves are scored, two of them have the greatest score, and the top
\* 5 has five entries, the first scored of the two at its head
C28_Witness ==
  /\ Matched /\ Len(ScoredLeaves) = 6 /\ Len(ret[1].top_5) = 5
  /\ ret[1].code = "75111" /\ ret[1].top_5[1].code = "75111"
  /\ args.sc[1] = DEFAULT_MIN_SCORE /\ args.sc[2] = FULL_SCORE /\ args.sc[4] = FULL_SCORE

(***************************************************************************)
(* An expert-map entry whose code the catalogue does not have.             *)
(***************************************************************************)
\* C29: a hit of the expert map whose code no record of the catalogue has is
\* accepted as it is, with confidence 1.0 and with no look at the duties,
\* also when the title contains "manager" or "engineer".
C29_UnknownCodeAccepted ==
  ExpertJustRun /\ OverrideHit /\ FirstWithCode(defs, OverrideCode) = 0 =>
    expert_match.hit /\ Returned /\ ResolvedByOverride /\ result.top_5 = <<>>

\* the title "Treasury Manager", with duties that share no token with any
\* description, is resolved to the code 12111 of the expert map, which no
\* record of the catalogue that was loaded has
C29_Witness ==
  /\ Returned /\ title_in = "Treasury Manager" /\ duties_in = "oversee vault staff"
  /\ ContextTitle /\ result.search_type = "Expert Map Match"
  /\ result.code = "12111" /\ result.score = FULL_SCORE
  /\ defs # <<>> /\ \A i \in 1..Len(defs) : defs[i].code # result.code

(***************************************************************************)
(* Texts that normalise to nothing.                                        *)
(***************************************************************************)
\* C30: a call whose title and duties both normalise to the empty str, and
\* that no rule and no entry of the expert map takes, returns X2000 with
\* confidence 1.0, as it does for two empty texts, and the scorer is called on
\* no record.
C30_NormalizedEmptyIsNoInfo ==
  /\ Returned /\ ~br.hit /\ ~expert_match.hit
  /\ _normalize(title_text) = "" /\ _normalize(duties_text) = ""
  => /\ result.code = "X2000" /\ result.score = FULL_SCORE
     /\ scores = <<>>
====
